---------------------------- MODULE Spec2Model ----------------------------
(***************************************************************************)
(* Model of the win-file-scan watcher of cpp-proto:                        *)
(*   - TailReaderWin (src/win-file-scan/TailReaderWin.hpp), the tail      *)
(*     cursor that reads the complete lines appended to one file;          *)
(*   - findLatestCsvByPrefix, readFileAllShared and the two watch loops    *)
(*     of src/win-file-scan/FileWatchers.cpp.                              *)
(* The file system and the producer writing the followed files are the    *)
(* environment: the cursor opens its file with FILE_SHARE_READ | WRITE |   *)
(* DELETE, so the producer may append, truncate, delete and replace the    *)
(* file between two calls, and every Win32 call may fail.                  *)
(***************************************************************************)
EXTENDS Integers, Sequences, FiniteSets, TLC

(***************************************************************************)
(* Bounds of the model.                                                    *)
(***************************************************************************)
\* Steps the producers take in one behaviour (bytes appended, truncations,
\* files created, written and deleted).
MaxOps == 3
\* Steps the producer takes in one behaviour of a file that only grows.
MaxGrow == 4
\* Files the path names one after the other (the first and its replacements).
MaxFiles == 2
\* Read chunk size: const DWORD kBuf = 64 * 1024 in the source, scaled to the
\* model's files so that one call's read spans several chunks.
kBuf == 3

(***************************************************************************)
(* Bytes.                                                                  *)
(***************************************************************************)
LF == 10
CR == 13
\* UTF-8 byte-order mark EF BB BF
BOM == <<239, 187, 191>>
\* An ordinary byte of a record ('a')
Letters == {97}

Min(a, b) == IF a < b THEN a ELSE b

\* std::string::find(c): the least position (from 1) of c in s, 0 for npos
Find(s, c) ==
    IF \E i \in 1..Len(s) : s[i] = c
    THEN CHOOSE i \in 1..Len(s) : s[i] = c /\ \A j \in 1..(i - 1) : s[j] # c
    ELSE 0

\* std::string::erase(0, n)
Erase(s, n) == SubSeq(s, n + 1, Len(s))

(***************************************************************************)
(* State.                                                                  *)
(***************************************************************************)
VARIABLES
    cur,        \* the file the followed path names now (NoFile: none)
    made,       \* files created at the path so far; a new file gets id made + 1
    content,    \* content[f]: the bytes of file f
    ops,        \* steps the producer has taken so far
    tail,       \* the TailReaderWin object
    hist,       \* history of the cursor's calls (not program state)
    dir,        \* the watched directory: dir[name] is the entry of that name
    watch,      \* the state of the CreateWatchNew loop
    whist,      \* history of the loop's ticks (not program state)
    loop,       \* the position and the locals of the CreateWatchAppend loop
    running,    \* the process runs: no exception has left a thread function
    started     \* started[m]: the thread CreateWatchAppend (m = "append") or
                \* CreateWatchNew (m = "new") has returned, and its interval

tailVars == <<cur, made, content, tail, hist, loop>>
newVars == <<dir, watch, whist>>
vars ==
    <<cur, made, content, ops, tail, hist, dir, watch, whist, loop, running,
      started>>

NoFile == 0
INVALID_HANDLE_VALUE == 0
Files == 1..MaxFiles

(***************************************************************************)
(* TailReaderWin.  The operators below work on one record s that joins the *)
(* object's fields (tail) with the history fields (hist):                  *)
(*   out        the lines the last ReadAppendedLines returned              *)
(*   consumed   the bytes appended to carry since the last reset_state     *)
(*   delivered  the lines returned since the last reset_state              *)
(*   hdrSkips   header lines dropped since the handle was opened           *)
(*   shrunk     the producer has truncated the file behind the handle to   *)
(*              less than offset bytes since the last reset_state          *)
(*   ev         what the last ReadAppendedLines did: opened a handle,      *)
(*              found the file replaced, found it truncated; and whether   *)
(*              shrunk held when it was called; was: the offset it had     *)
(*              before the call replaced or truncated it (else 0);         *)
(*              sizeFailed: its GetFileSizeEx failed; atOpen: the read     *)
(*              handles open once its last CreateFileA for reading had     *)
(*              returned a handle (0 when none did)                        *)
(*   handles    the handles the object has got from CreateFileA and not    *)
(*              given to CloseHandle: read, those got for reading; probe,  *)
(*              those got by refresh_if_replaced                           *)
(***************************************************************************)
NoEv ==
    [opened |-> FALSE, replaced |-> FALSE, truncated |-> FALSE, shrunk |-> FALSE,
     was |-> 0, sizeFailed |-> FALSE, atOpen |-> 0]

\* The object after construction (lines 19-21 and the member initialisers)
NewTail(skipHeader) ==
    [h |-> INVALID_HANDLE_VALUE, offset |-> 0, carry |-> <<>>,
     skipHeader |-> skipHeader, headerSkipped |-> FALSE, bomStripped |-> FALSE,
     lastErr |-> "0", fileId |-> NoFile, hasFileId |-> FALSE]

NewHist ==
    [out |-> <<>>, consumed |-> <<>>, delivered |-> <<>>, hdrSkips |-> 0,
     shrunk |-> FALSE, ev |-> NoEv, handles |-> [read |-> 0, probe |-> 0]]

\* reset_state that forgets to clear carry
reset_state_keepCarry(s) ==
    [s EXCEPT !.offset = 0, !.bomStripped = FALSE, !.headerSkipped = FALSE,
              !.consumed = <<>>, !.delivered = <<>>, !.shrunk = FALSE]

\* reset_state that keeps offset
reset_state_keepOffset(s) ==
    [s EXCEPT !.carry = <<>>, !.bomStripped = FALSE, !.headerSkipped = FALSE,
              !.consumed = <<>>, !.delivered = <<>>, !.shrunk = FALSE]

\* Lines 165-170
reset_state(s) ==
    [s EXCEPT !.offset = 0, !.carry = <<>>, !.bomStripped = FALSE,
              !.headerSkipped = FALSE,
              !.consumed = <<>>, !.delivered = <<>>, !.shrunk = FALSE]

\* open_internal that keeps offset, carry and the flags of the old handle
open_internal_noReset(s, oc) ==
    IF oc = "fail"
    THEN [s EXCEPT !.h = INVALID_HANDLE_VALUE, !.lastErr = "GetLastError"]
    ELSE [s EXCEPT !.h = cur,
                   !.fileId = IF oc = "ok" THEN cur ELSE @,
                   !.hasFileId = (oc = "ok"),
                   !.hdrSkips = 0,
                   !.ev.opened = TRUE,
                   !.ev.atOpen = s.handles.read + 1,
                   !.handles.read = @ + 1]

\* oc: "fail" CreateFileA fails; "noid" it succeeds and
\* GetFileInformationByHandle fails; "ok" both succeed
open_internal(s, oc) ==
    IF oc = "fail"
    THEN [s EXCEPT !.h = INVALID_HANDLE_VALUE, !.lastErr = "GetLastError"]
    ELSE reset_state([s EXCEPT !.h = cur,
                               !.fileId = IF oc = "ok" THEN cur ELSE @,
                               !.hasFileId = (oc = "ok"),
                               !.hdrSkips = 0,
                               !.ev.opened = TRUE,
                               !.ev.atOpen = s.handles.read + 1,
                               !.handles.read = @ + 1])

Open(s, oc) ==
    IF s.h # INVALID_HANDLE_VALUE THEN s ELSE open_internal(s, oc)

\* Lines 122-127
Close(s) ==
    IF s.h # INVALID_HANDLE_VALUE
    THEN [s EXCEPT !.h = INVALID_HANDLE_VALUE, !.handles.read = @ - 1]
    ELSE s

\* refresh_if_replaced that calls open_internal before Close
refresh_if_replaced_openFirst(s, pc, oc) ==
    IF ~s.hasFileId THEN s
    ELSE IF pc = "fail" THEN s
    ELSE LET replaced == pc = "info" /\ cur # s.fileId
         IN  IF replaced
             THEN Close(open_internal([s EXCEPT !.ev.replaced = TRUE,
                                                !.ev.was = s.offset], oc))
             ELSE s

\* refresh_if_replaced that takes a file of the size of offset for the old one
refresh_if_replaced_bySize(s, pc, oc) ==
    IF ~s.hasFileId THEN s
    ELSE IF pc = "fail" THEN s
    ELSE LET replaced == pc = "info" /\ cur # s.fileId
                         /\ Len(content[cur]) # s.offset
         IN  IF replaced
             THEN open_internal([Close(s) EXCEPT !.ev.replaced = TRUE,
                                                 !.ev.was = s.offset], oc)
             ELSE s

\* refresh_if_replaced that closes the handle when the path names no file
refresh_if_replaced_closeOnMissing(s, pc, oc) ==
    IF ~s.hasFileId THEN s
    ELSE IF pc = "fail" THEN Close(s)
    ELSE LET replaced == pc = "info" /\ cur # s.fileId
         IN  IF replaced
             THEN open_internal([Close(s) EXCEPT !.ev.replaced = TRUE,
                                                 !.ev.was = s.offset], oc)
             ELSE s

\* refresh_if_replaced that resets the cursor when the probe cannot open the
\* path
refresh_if_replaced_resetOnMissing(s, pc, oc) ==
    IF ~s.hasFileId THEN s
    ELSE IF pc = "fail" THEN reset_state(s)
    ELSE LET replaced == pc = "info" /\ cur # s.fileId
         IN  IF replaced
             THEN open_internal([Close(s) EXCEPT !.ev.replaced = TRUE,
                                                 !.ev.was = s.offset], oc)
             ELSE s

\* refresh_if_replaced without the test of _hasFileId
refresh_if_replaced_noGuard(s, pc, oc) ==
    IF pc = "fail" THEN s
    ELSE LET replaced == pc = "info" /\ cur # s.fileId
         IN  IF replaced
             THEN open_internal([Close(s) EXCEPT !.ev.replaced = TRUE,
                                                 !.ev.was = s.offset], oc)
             ELSE s

\* pc: "fail" the probe's CreateFileA fails; "noinfo" it succeeds and
\* GetFileInformationByHandle fails; "info" both succeed.  oc: the outcome of
\* the open_internal of line 204
refresh_if_replaced(s, pc, oc) ==
    IF ~s.hasFileId THEN s
    ELSE IF pc = "fail" THEN s
    ELSE LET probed == [s EXCEPT !.handles.probe = @ + 1]
             replaced == pc = "info" /\ cur # s.fileId
             closed == [probed EXCEPT !.handles.probe = @ - 1]
         IN  IF replaced
             THEN open_internal([Close(closed) EXCEPT !.ev.replaced = TRUE,
                                                      !.ev.was = s.offset], oc)
             ELSE closed

\* Lines 82-91
StripBom(s) ==
    IF ~s.bomStripped /\ s.carry # <<>>
    THEN [s EXCEPT !.carry = IF Len(@) >= 3 /\ SubSeq(@, 1, 3) = BOM
                             THEN Erase(@, 3) ELSE @,
                   !.bomStripped = TRUE]
    ELSE s

\* ExtractLines that removes every CR at the end of a line
RECURSIVE ExtractLines_trimAll(_)
ExtractLines_trimAll(s) ==
    LET pos == Find(s.carry, LF)
    IN  IF pos = 0 THEN s
        ELSE LET seg  == SubSeq(s.carry, 1, pos - 1)
                 keep == {i \in 1..Len(seg) : seg[i] # CR}
                 n    == IF keep = {} THEN 0
                         ELSE CHOOSE i \in keep : \A j \in keep : j <= i
                 line == SubSeq(seg, 1, n)
             IN  ExtractLines_trimAll([s EXCEPT !.out = Append(@, line),
                                                !.delivered = Append(@, line),
                                                !.carry = Erase(@, pos)])

\* Lines 106-114
RECURSIVE ExtractLines(_)
ExtractLines(s) ==
    LET pos == Find(s.carry, LF)
    IN  IF pos = 0 THEN s
        ELSE LET seg  == SubSeq(s.carry, 1, pos - 1)
                 line == IF seg # <<>> /\ seg[Len(seg)] = CR
                         THEN SubSeq(seg, 1, Len(seg) - 1) ELSE seg
             IN  ExtractLines([s EXCEPT !.out = Append(@, line),
                                        !.delivered = Append(@, line),
                                        !.carry = Erase(@, pos)])

\* SkipHeaderAndExtract that never records that it has dropped the header
SkipHeaderAndExtract_again(s) ==
    IF s.skipHeader /\ ~s.headerSkipped
    THEN LET pos == Find(s.carry, LF)
         IN  IF pos # 0
             THEN ExtractLines([s EXCEPT !.carry = Erase(@, pos),
                                         !.hdrSkips = @ + 1])
             ELSE s
    ELSE ExtractLines(s)

\* SkipHeaderAndExtract that extracts no line from the chunk that ends the
\* header
SkipHeaderAndExtract_headerOnly(s) ==
    IF s.skipHeader /\ ~s.headerSkipped
    THEN LET pos == Find(s.carry, LF)
         IN  IF pos # 0
             THEN [s EXCEPT !.carry = Erase(@, pos),
                            !.headerSkipped = TRUE,
                            !.hdrSkips = @ + 1]
             ELSE s
    ELSE ExtractLines(s)

\* Lines 93-114: the header skip and the extraction of the complete lines
SkipHeaderAndExtract(s) ==
    IF s.skipHeader /\ ~s.headerSkipped
    THEN LET pos == Find(s.carry, LF)
         IN  IF pos # 0
             THEN ExtractLines([s EXCEPT !.carry = Erase(@, pos),
                                         !.headerSkipped = TRUE,
                                         !.hdrSkips = @ + 1])
             ELSE s
    ELSE ExtractLines(s)

\* Chunk that returns the unterminated rest of carry as a line
Chunk_flush(s, chunk) ==
    LET r == SkipHeaderAndExtract(StripBom(
                 [s EXCEPT !.offset = @ + Len(chunk),
                           !.carry = @ \o chunk,
                           !.consumed = @ \o chunk]))
    IN  IF r.carry = <<>> THEN r
        ELSE [r EXCEPT !.out = Append(@, r.carry),
                       !.delivered = Append(@, r.carry),
                       !.carry = <<>>]

\* Chunk that advances offset by the bytes of the lines completed, not by the
\* bytes read
Chunk_lines(s, chunk) ==
    LET r == SkipHeaderAndExtract(StripBom(
                 [s EXCEPT !.carry = @ \o chunk,
                           !.consumed = @ \o chunk]))
    IN  [r EXCEPT !.offset = s.offset + Len(chunk) - Len(r.carry)]

\* Lines 78-114: the loop body once ReadFile has returned the bytes `chunk`
Chunk(s, chunk) ==
    SkipHeaderAndExtract(StripBom(
        [s EXCEPT !.offset = @ + Len(chunk),
                  !.carry = @ \o chunk,
                  !.consumed = @ \o chunk]))

\* The loop that counts the bytes it asked for as read when ReadFile fails
RECURSIVE ReadLoop_skipOnFail(_, _, _, _, _)
ReadLoop_skipOnFail(s, data, remaining, call, plan) ==
    IF remaining = 0 THEN s
    ELSE LET toRead == Min(remaining, kBuf)
             picked == plan.at = call
             readBytes == Min(IF picked THEN Min(plan.n, toRead) ELSE toRead,
                              Len(data) - s.offset)
         IN  IF picked /\ ~plan.ok
             THEN [s EXCEPT !.lastErr = "GetLastError", !.offset = @ + toRead]
             ELSE IF readBytes = 0 THEN s
             ELSE ReadLoop_skipOnFail(
                      Chunk(s, SubSeq(data, s.offset + 1, s.offset + readBytes)),
                      data, remaining - readBytes, call + 1, plan)

\* Lines 69-115.  data: the bytes of the file behind the handle; call: the
\* number of this ReadFile call; plan: the one call whose outcome the
\* environment picks, [at |-> i, ok |-> FALSE] call i fails,
\* [at |-> i, ok |-> TRUE, n |-> k] call i reads at most k bytes; every other
\* call reads all it asks for
RECURSIVE ReadLoop(_, _, _, _, _)
ReadLoop(s, data, remaining, call, plan) ==
    IF remaining = 0 THEN s
    ELSE LET toRead == Min(remaining, kBuf)
             picked == plan.at = call
             readBytes == Min(IF picked THEN Min(plan.n, toRead) ELSE toRead,
                              Len(data) - s.offset)
         IN  IF picked /\ ~plan.ok THEN [s EXCEPT !.lastErr = "GetLastError"]
             ELSE IF readBytes = 0 THEN s
             ELSE ReadLoop(Chunk(s, SubSeq(data, s.offset + 1, s.offset + readBytes)),
                           data, remaining - readBytes, call + 1, plan)

\* ReadAppendedLines that resets the cursor when the size query fails
ReadAppendedLines_resetOnSize(s0, io) ==
    LET s1 == Open([s0 EXCEPT !.out = <<>>, !.ev = [NoEv EXCEPT !.shrunk = s0.shrunk]],
                   io.open)
    IN  IF s1.h = INVALID_HANDLE_VALUE THEN s1
        ELSE
        LET s2 == refresh_if_replaced(s1, io.probe, io.reopen)
        IN  IF s2.h = INVALID_HANDLE_VALUE \/ ~io.size
            THEN reset_state([s2 EXCEPT !.lastErr = "GetLastError",
                                        !.ev.sizeFailed = TRUE])
            ELSE
            LET fileSize == Len(content[s2.h])
                s3 == IF fileSize < s2.offset
                      THEN reset_state([s2 EXCEPT !.ev.truncated = TRUE,
                                                  !.ev.was = s2.offset])
                      ELSE s2
            IN  IF fileSize = s3.offset THEN s3
                ELSE IF ~io.seek
                THEN [s3 EXCEPT !.lastErr = "GetLastError"]
                ELSE ReadLoop(s3, content[s3.h], fileSize - s3.offset, 1, io.plan)

\* ReadAppendedLines that reads the file again from byte 0 when it finds
\* nothing new
ReadAppendedLines_reread(s0, io) ==
    LET s1 == Open([s0 EXCEPT !.out = <<>>, !.ev = [NoEv EXCEPT !.shrunk = s0.shrunk]],
                   io.open)
    IN  IF s1.h = INVALID_HANDLE_VALUE THEN s1
        ELSE
        LET s2 == refresh_if_replaced(s1, io.probe, io.reopen)
        IN  IF s2.h = INVALID_HANDLE_VALUE \/ ~io.size
            THEN [s2 EXCEPT !.lastErr = "GetLastError", !.ev.sizeFailed = TRUE]
            ELSE
            LET fileSize == Len(content[s2.h])
                s3 == IF fileSize < s2.offset
                      THEN reset_state([s2 EXCEPT !.ev.truncated = TRUE,
                                                  !.ev.was = s2.offset])
                      ELSE s2
            IN  IF fileSize = s3.offset
                THEN ReadLoop(reset_state(s3), content[s3.h], fileSize, 1, io.plan)
                ELSE IF ~io.seek
                THEN [s3 EXCEPT !.lastErr = "GetLastError"]
                ELSE ReadLoop(s3, content[s3.h], fileSize - s3.offset, 1, io.plan)

\* ReadAppendedLines without the truncation test of lines 49-53
ReadAppendedLines_noTruncation(s0, io) ==
    LET s1 == Open([s0 EXCEPT !.out = <<>>, !.ev = [NoEv EXCEPT !.shrunk = s0.shrunk]],
                   io.open)
    IN  IF s1.h = INVALID_HANDLE_VALUE THEN s1
        ELSE
        LET s2 == refresh_if_replaced(s1, io.probe, io.reopen)
        IN  IF s2.h = INVALID_HANDLE_VALUE \/ ~io.size
            THEN [s2 EXCEPT !.lastErr = "GetLastError", !.ev.sizeFailed = TRUE]
            ELSE
            LET fileSize == Len(content[s2.h])
            IN  IF fileSize <= s2.offset THEN s2
                ELSE IF ~io.seek
                THEN [s2 EXCEPT !.lastErr = "GetLastError"]
                ELSE ReadLoop(s2, content[s2.h], fileSize - s2.offset, 1, io.plan)

\* io: the outcomes of the Win32 calls of this call
ReadAppendedLines(s0, io) ==
    LET s1 == Open([s0 EXCEPT !.out = <<>>, !.ev = [NoEv EXCEPT !.shrunk = s0.shrunk]],
                   io.open)
    IN  IF s1.h = INVALID_HANDLE_VALUE THEN s1
        ELSE
        LET s2 == refresh_if_replaced(s1, io.probe, io.reopen)
        IN  IF s2.h = INVALID_HANDLE_VALUE \/ ~io.size
            THEN [s2 EXCEPT !.lastErr = "GetLastError", !.ev.sizeFailed = TRUE]
            ELSE
            LET fileSize == Len(content[s2.h])
                s3 == IF fileSize < s2.offset
                      THEN reset_state([s2 EXCEPT !.ev.truncated = TRUE,
                                                  !.ev.was = s2.offset])
                      ELSE s2
            IN  IF fileSize = s3.offset THEN s3
                ELSE IF ~io.seek
                THEN [s3 EXCEPT !.lastErr = "GetLastError"]
                ELSE ReadLoop(s3, content[s3.h], fileSize - s3.offset, 1, io.plan)

(***************************************************************************)
(* The outcomes the environment can give the Win32 calls of one call, cut  *)
(* down to the calls the call makes.                                       *)
(***************************************************************************)
OpenOutcomes == IF cur = NoFile THEN {"fail"} ELSE {"fail", "noid", "ok"}
ProbeOutcomes == IF cur = NoFile THEN {"fail"} ELSE {"fail", "noinfo", "info"}
\* ReadFile calls one ReadAppendedLines can make
ReadCalls == 1..((MaxGrow \div kBuf) + 1)
NoPlan == [at |-> 0, ok |-> TRUE, n |-> 0]
Plans ==
    {NoPlan}
    \cup {[at |-> i, ok |-> FALSE, n |-> 0] : i \in ReadCalls}
    \cup {[at |-> i, ok |-> TRUE, n |-> k] : i \in ReadCalls, k \in 0..(kBuf - 1)}

\* The outcomes of GetFileSizeEx, SetFilePointerEx and the ReadFile calls
Reads ==
    {[size |-> FALSE, seek |-> TRUE, plan |-> NoPlan],
     [size |-> TRUE, seek |-> FALSE, plan |-> NoPlan]}
    \cup {[size |-> TRUE, seek |-> TRUE, plan |-> pl] : pl \in Plans}

IOs ==
    LET s == tail @@ hist
        opens == IF s.h # INVALID_HANDLE_VALUE THEN {"none"} ELSE OpenOutcomes
    IN  UNION {
        LET s1 == Open(s, oc)
            probes == IF s1.h = INVALID_HANDLE_VALUE \/ ~s1.hasFileId
                      THEN {"none"} ELSE ProbeOutcomes
        IN  UNION {
            LET reopens == IF pc = "info" /\ cur # s1.fileId
                           THEN OpenOutcomes ELSE {"none"}
            IN  {[open |-> oc, probe |-> pc, reopen |-> rc, size |-> r.size,
                  seek |-> r.seek, plan |-> r.plan] :
                    rc \in reopens, r \in Reads}
            : pc \in probes}
        : oc \in opens}

(***************************************************************************)
(* File names and paths: strings are sequences of character codes.         *)
(***************************************************************************)
\* "d", the directory CreateWatchNew watches
DirName == <<100>>
\* "a.csv", "b.CSV", "ab.txt", "csv"
Names == {<<97, 46, 99, 115, 118>>, <<98, 46, 67, 83, 86>>,
          <<97, 98, 46, 116, 120, 116>>, <<99, 115, 118>>}
\* "", "a"
Prefixes == {<<>>, <<97>>}
\* Last-write times of the model's files
MaxTime == 1
Times == 0..MaxTime

\* Lines 19-25; 92 is the backslash, 47 the slash
joinPath(d, name) ==
    IF d = <<>> THEN name
    ELSE IF d[Len(d)] \in {92, 47} THEN d \o name
    ELSE d \o <<92>> \o name

\* ::tolower in the C locale
tolower(c) == IF c >= 65 /\ c <= 90 THEN c + 32 ELSE c

\* endsCsv without the tolower
endsCsv_exact(s) ==
    IF Len(s) < 4 THEN FALSE
    ELSE SubSeq(s, Len(s) - 3, Len(s)) = <<46, 99, 115, 118>>

\* Lines 49-54; ".csv" is 46 99 115 118
endsCsv(s) ==
    IF Len(s) < 4 THEN FALSE
    ELSE LET ext == SubSeq(s, Len(s) - 3, Len(s))
         IN  [i \in 1..4 |-> tolower(ext[i])] = <<46, 99, 115, 118>>

\* std::string operator>: a > b in the lexicographic order of the bytes
StrGreater(a, b) ==
    \E i \in 1..Len(a) :
        /\ \A j \in 1..(i - 1) : j <= Len(b) /\ a[j] = b[j]
        /\ (i > Len(b) \/ a[i] > b[i])

\* Newer without the comparison of the names
Newer_noTie(t, name, best) == t > best.time

\* Line 58: the entry (t, name) replaces the best one so far
Newer(t, name, best) ==
    t > best.time \/ (t = best.time /\ StrGreater(name, best.name))

\* Lines 45-61: one round of the do-while loop, on the entry `name`
ScanEntry(best, name) ==
    IF dir[name].isDir THEN best
    ELSE IF ~endsCsv(name) THEN best
    ELSE IF Newer(dir[name].time, name, best)
         THEN [time |-> dir[name].time, name |-> name]
         ELSE best

RECURSIVE ScanAll(_, _)
ScanAll(best, order) ==
    IF order = <<>> THEN best
    ELSE ScanAll(ScanEntry(best, Head(order)), Tail(order))

\* Lines 29-67.  order: the names FindFirstFileA and FindNextFileA return for
\* the pattern dir\prefix*, in the order they return them; <<>> when
\* FindFirstFileA fails (no name matches, or the directory cannot be read).
\* The result is a path, <<>> for the empty path
findLatestCsvByPrefix(d, order) ==
    IF order = <<>> THEN <<>>
    ELSE LET best == ScanAll([time |-> 0, name |-> <<>>], order)
         IN  IF best.name = <<>> THEN <<>> ELSE joinPath(d, best.name)

\* Lines 70-100.  data: the bytes of the file; rd: "open", "size" or "read"
\* for the call that fails, "ok" when none does.  The result is <<ok, out>>
\* The read loop that stops after one buffer
ReadAll_once(out, rest) == out \o SubSeq(rest, 1, Min(kBuf, Len(rest)))

\* Lines 87-91: the read loop; rest: the bytes after the file pointer
RECURSIVE ReadAll(_, _)
ReadAll(out, rest) ==
    LET readBytes == Min(kBuf, Len(rest))
    IN  IF readBytes = 0 THEN out
        ELSE ReadAll(out \o SubSeq(rest, 1, readBytes), Erase(rest, readBytes))

readFileAllShared(data, rd) ==
    IF rd # "ok" THEN [ok |-> FALSE, out |-> <<>>]
    ELSE LET out == ReadAll(<<>>, data)
         IN  [ok |-> TRUE,
              out |-> IF Len(out) >= 3 /\ SubSeq(out, 1, 3) = BOM
                      THEN Erase(out, 3) ELSE out]

\* rapidcsv::Document(stream, LabelParams(-1, -1)): the rows of a text without
\* header, one for every line, the last line with or without its LF.  A row
\* stands for its cells
ParseRows(text) ==
    LET ends == {i \in 1..Len(text) : text[i] = LF}
        last == IF ends = {} THEN 0 ELSE CHOOSE i \in ends : \A j \in ends : j <= i
        End(k) == CHOOSE i \in ends : Cardinality({j \in ends : j <= i}) = k
        Start(k) == IF k = 1 THEN 1 ELSE End(k - 1) + 1
        full == [k \in 1..Cardinality(ends) |-> SubSeq(text, Start(k), End(k) - 1)]
    IN  IF last < Len(text) THEN Append(full, SubSeq(text, last + 1, Len(text)))
        ELSE full

(***************************************************************************)
(* Construction (FileWatchers.cpp, lines 114-119 and 139-142).             *)
(***************************************************************************)
\* A DWORD (32 bits, unsigned) is kept as its two 16-bit halves: the value
\* of [hi |-> a, lo |-> b] is a * 2^16 + b
Half == 2^16
DWORD(hi, lo) == [hi |-> hi, lo |-> lo]

\* Line 114: static_cast<DWORD>(seconds) * 1000, the product taken in DWORD,
\* that is modulo 2^32
to_ms(seconds) ==
    IF seconds <= 0 THEN DWORD(0, 0)
    ELSE LET low  == (seconds % Half) * 1000
             high == (seconds \div Half) * 1000 + (low \div Half)
         IN  DWORD(high % Half, low % Half)

\* No thread yet
NotStarted == [on |-> FALSE, waitSeconds |-> 0, waitMs |-> DWORD(0, 0)]

\* Lines 118 and 141: the thread is started, waitMs = to_ms(waitSeconds)
\* captured
Started(waitSeconds) ==
    [on |-> TRUE, waitSeconds |-> waitSeconds, waitMs |-> to_ms(waitSeconds)]

\* The poll intervals (int waitSeconds) a caller passes: negative, zero,
\* positive; the greatest whose milliseconds fit 32 bits, the next one, and
\* INT_MAX
WaitArgs == {-1, 0, 1, 4294967, 4294968, 2147483647}

(***************************************************************************)
(* The loop of CreateWatchAppend (FileWatchers.cpp, lines 116-137).        *)
(*   pc       "open": at the top of the loop body (line 122); "read": at   *)
(*            line 123, the handle open; "parse": at line 125 with the     *)
(*            lines just read; "emit": in emit_rows, about to call onRow   *)
(*            on row i                                                     *)
(*            "exit": an exception has left the thread function            *)
(*   lines    the lines ReadAppendedLines returned to this round           *)
(*   rows     the rows of the parsed document                              *)
(*   handled  the rows onRow was called on in this round, in order         *)
(*            (history)                                                    *)
(*   end      how the last round ended (history): "idle" Open failed,      *)
(*            "empty" no line was read, "done" every row was handled,      *)
(*            "parse" the parser threw, "row" onRow threw a                *)
(*            std::exception, "fatal" onRow threw something else           *)
(***************************************************************************)
NewLoop ==
    [pc |-> "open", lines |-> <<>>, rows |-> <<>>, i |-> 0, handled |-> <<>>,
     end |-> "none"]

\* Line 126: the lines, each followed by "\n", in one chunk
RECURSIVE JoinLines(_)
JoinLines(lines) ==
    IF lines = <<>> THEN <<>>
    ELSE Head(lines) \o <<LF>> \o JoinLines(Tail(lines))

\* OnOpen that goes on to the read when Open has failed
OnOpen_proceed(l, s) == [l EXCEPT !.pc = "read"]

\* Line 122: s is the cursor after tail.Open(); when it failed the round
\* ends (Sleep(500); continue)
OnOpen(l, s) ==
    IF s.h = INVALID_HANDLE_VALUE
    THEN [NewLoop EXCEPT !.end = "idle"]
    ELSE [l EXCEPT !.pc = "read"]

\* Lines 123-124 and 130: s is the cursor after tail.ReadAppendedLines()
OnRead(l, s) ==
    IF s.out = <<>>
    THEN [NewLoop EXCEPT !.end = "empty"]
    ELSE [NewLoop EXCEPT !.pc = "parse", !.lines = s.out, !.end = l.end]

\* OnParse that keeps the chunk when the parser throws
OnParse_retry(l, ok) ==
    IF ~ok THEN [l EXCEPT !.end = "parse"]
    ELSE [l EXCEPT !.pc = "emit", !.rows = ParseRows(JoinLines(l.lines)), !.i = 1]

\* Lines 125-128 and 131-133: the document is built from the chunk, or the
\* parser throws and the catch block ends the round
OnParse(l, ok) ==
    IF ~ok THEN [NewLoop EXCEPT !.end = "parse"]
    ELSE [l EXCEPT !.pc = "emit", !.rows = ParseRows(JoinLines(l.lines)), !.i = 1]

\* OnEmit that leaves out every other row
OnEmit_skip(l, thrown) ==
    LET h == Append(l.handled, l.rows[l.i])
    IN  IF thrown = "std" THEN [NewLoop EXCEPT !.handled = h, !.end = "row"]
        ELSE IF thrown = "other"
        THEN [l EXCEPT !.pc = "exit", !.handled = h, !.end = "fatal"]
        ELSE IF l.i + 1 >= Len(l.rows)
        THEN [NewLoop EXCEPT !.handled = h, !.end = "done"]
        ELSE [l EXCEPT !.i = @ + 2, !.handled = h]

\* Lines 107-111 and 131-133: onRow is called on row i; thrown: "no" it
\* returns, "std" it throws a std::exception, "other" it throws anything else
OnEmit(l, thrown) ==
    LET h == Append(l.handled, l.rows[l.i])
    IN  IF thrown = "std" THEN [NewLoop EXCEPT !.handled = h, !.end = "row"]
        ELSE IF thrown = "other"
        THEN [l EXCEPT !.pc = "exit", !.handled = h, !.end = "fatal"]
        ELSE IF l.i = Len(l.rows)
        THEN [NewLoop EXCEPT !.handled = h, !.end = "done"]
        ELSE [l EXCEPT !.i = @ + 1, !.handled = h]

\* The CreateWatchNew loop after construction (line 142)
NewWatch(prefix) ==
    [dir |-> DirName, prefix |-> prefix, lastPath |-> <<>>, lastTime |-> 0]

\* Changed that also fires when the time is the remembered one
Changed_sameTime(latest, t, w) == latest # w.lastPath \/ t >= w.lastTime

\* Line 152
Changed(latest, t, w) == latest # w.lastPath \/ t > w.lastTime

\* whist: what the tick just made did (a producer's step clears it).
\* latest: what findLatestCsvByPrefix returned;
\* t: the time GetFileAttributesExA gave (0 when it failed); read: the tick
\* called readFileAllShared; done: it reached line 159; rows: the rows it passed
\* to onRow, in order; listed: FindFirstFileA succeeded; wasPath, wasTime:
\* lastPath and lastTime when the tick began; noAttr: GetFileAttributesExA
\* failed; failed: readFileAllShared returned false, or the parser or the
\* handler threw; fatal: what the handler threw is no std::exception, so the
\* catch of line 165 does not catch it and it leaves the thread function
NoTick ==
    [latest |-> <<>>, t |-> 0, read |-> FALSE, done |-> FALSE, rows |-> <<>>,
     listed |-> FALSE, wasPath |-> <<>>, wasTime |-> 0, noAttr |-> FALSE,
     failed |-> FALSE, fatal |-> FALSE]

\* The name of a path of the directory
NameOf(path) == CHOOSE n \in Names : joinPath(DirName, n) = path

\* WatchNewTick that remembers the path and the time before it reads
WatchNewTick_eager(w, io) ==
    LET latest == findLatestCsvByPrefix(w.dir, io.order)
        h0 == [NoTick EXCEPT !.latest = latest, !.listed = (io.order # <<>>),
                             !.wasPath = w.lastPath, !.wasTime = w.lastTime]
    IN  IF latest = <<>> THEN <<w, h0>>
        ELSE
        LET t == IF io.attr THEN dir[NameOf(latest)].time ELSE 0
            h1 == [h0 EXCEPT !.t = t, !.noAttr = ~io.attr]
            w1 == [w EXCEPT !.lastPath = latest, !.lastTime = t]
        IN  IF ~Changed(latest, t, w) THEN <<w, h1>>
            ELSE
            LET r == readFileAllShared(dir[NameOf(latest)].data, io.rd)
                h2 == [h1 EXCEPT !.read = TRUE]
            IN  IF ~r.ok \/ ~io.parse THEN <<w1, [h2 EXCEPT !.failed = TRUE]>>
                ELSE
                LET rows == ParseRows(r.out)
                IN  IF io.thrown \in 1..Len(rows)
                    THEN <<w1, [h2 EXCEPT !.rows = SubSeq(rows, 1, io.thrown),
                                          !.failed = TRUE, !.fatal = io.fatal]>>
                    ELSE <<w1, [h2 EXCEPT !.rows = rows, !.done = TRUE]>>

\* Lines 145-167: one round of the loop of CreateWatchNew.  io.order: the
\* enumeration of the directory; io.attr: GetFileAttributesExA succeeds;
\* io.rd: the outcome of readFileAllShared; io.parse: the parser returns;
\* io.thrown: the number of the onRow call that throws (0: none); io.fatal:
\* what it throws is no std::exception
WatchNewTick(w, io) ==
    LET latest == findLatestCsvByPrefix(w.dir, io.order)
        h0 == [NoTick EXCEPT !.latest = latest, !.listed = (io.order # <<>>),
                             !.wasPath = w.lastPath, !.wasTime = w.lastTime]
    IN  IF latest = <<>> THEN <<w, h0>>
        ELSE
        LET t == IF io.attr THEN dir[NameOf(latest)].time ELSE 0
            h1 == [h0 EXCEPT !.t = t, !.noAttr = ~io.attr]
        IN  IF ~Changed(latest, t, w) THEN <<w, h1>>
            ELSE
            LET r == readFileAllShared(dir[NameOf(latest)].data, io.rd)
                h2 == [h1 EXCEPT !.read = TRUE]
            IN  IF ~r.ok \/ ~io.parse THEN <<w, [h2 EXCEPT !.failed = TRUE]>>
                ELSE
                LET rows == ParseRows(r.out)
                IN  IF io.thrown \in 1..Len(rows)
                    THEN <<w, [h2 EXCEPT !.rows = SubSeq(rows, 1, io.thrown),
                                         !.failed = TRUE, !.fatal = io.fatal]>>
                    ELSE <<[w EXCEPT !.lastPath = latest, !.lastTime = t],
                           [h2 EXCEPT !.rows = rows, !.done = TRUE]>>

\* The names the pattern dir\prefix* matches
Listing == {n \in DOMAIN dir : dir[n].present /\ Len(n) >= Len(watch.prefix)
                               /\ SubSeq(n, 1, Len(watch.prefix)) = watch.prefix}
\* The orders FindFirstFileA and FindNextFileA can return them in
Orders ==
    {o \in [1..Cardinality(Listing) -> Listing] :
        \A i, j \in 1..Cardinality(Listing) : i # j => o[i] # o[j]}

NewIOs ==
    UNION {
        LET latest == findLatestCsvByPrefix(watch.dir, o)
        IN  IF latest = <<>>
            THEN {[order |-> o, attr |-> TRUE, rd |-> "ok", parse |-> TRUE,
                   thrown |-> 0, fatal |-> FALSE]}
            ELSE {[order |-> o, attr |-> a, rd |-> r.rd, parse |-> r.parse,
                   thrown |-> r.thrown, fatal |-> r.fatal] :
                    a \in BOOLEAN,
                    r \in {[rd |-> x, parse |-> TRUE, thrown |-> 0, fatal |-> FALSE] :
                              x \in {"open", "size", "read"}}
                          \cup {[rd |-> "ok", parse |-> FALSE, thrown |-> 0,
                                  fatal |-> FALSE]}
                          \cup {[rd |-> "ok", parse |-> TRUE, thrown |-> 0,
                                  fatal |-> FALSE]}
                          \cup {[rd |-> "ok", parse |-> TRUE, thrown |-> k,
                                  fatal |-> f] :
                                  k \in 1..Len(ParseRows(dir[NameOf(latest)].data)),
                                  f \in BOOLEAN}}
        : o \in Orders \cup {<<>>}}

(***************************************************************************)
(* Actions.                                                                *)
(***************************************************************************)
\* One call of ReadAppendedLines (one tick of the append-mode loop)
Tick ==
    \E io \in IOs :
        LET s == ReadAppendedLines(tail @@ hist, io)
        IN  /\ tail' = [f \in DOMAIN tail |-> s[f]]
            /\ hist' = [f \in DOMAIN hist |-> s[f]]
            /\ UNCHANGED <<cur, made, content, ops, newVars, loop, running, started>>

\* The bytes the producer may write after `bytes`: a byte of B, or the next
\* byte of a byte-order mark at the start of the file
NextBytes(bytes, B) ==
    B \cup (IF Len(bytes) < 3 /\ bytes = SubSeq(BOM, 1, Len(bytes))
          THEN {BOM[Len(bytes) + 1]} ELSE {})

\* The producer appends one byte of B (or of a byte-order mark) to a file it
\* has created
ProducerAppend(f, B, max) ==
    /\ running
    /\ f \in 1..made
    /\ ops < max
    /\ \E b \in NextBytes(content[f], B) :
           content' = [content EXCEPT ![f] = Append(@, b)]
    /\ ops' = ops + 1
    /\ UNCHANGED <<cur, made, tail, hist, newVars, loop, running, started>>

\* The producer truncates the file the path names
ProducerTruncate ==
    /\ running
    /\ cur # NoFile
    /\ ops < MaxOps
    /\ \E n \in 0..(Len(content[cur]) - 1) :
           /\ content' = [content EXCEPT ![cur] = SubSeq(@, 1, n)]
           /\ hist' = [hist EXCEPT !.shrunk = @ \/ (tail.h = cur /\ n < tail.offset)]
    /\ ops' = ops + 1
    /\ UNCHANGED <<cur, made, tail, newVars, loop, running, started>>

\* The producer creates a new, empty file at the path (in place of the one
\* the path named, which lives on while a handle to it is open)
ProducerCreate ==
    /\ running
    /\ made < MaxFiles
    /\ made' = made + 1
    /\ cur' = made + 1
    /\ ops < MaxOps
    /\ ops' = ops + 1
    /\ UNCHANGED <<content, tail, hist, newVars, loop, running, started>>

\* The producer removes (or renames away) the file the path names
ProducerDelete ==
    /\ running
    /\ cur # NoFile
    /\ cur' = NoFile
    /\ ops < MaxOps
    /\ ops' = ops + 1
    /\ UNCHANGED <<made, content, tail, hist, newVars, loop, running, started>>

\* The loop of CreateWatchAppend calls tail.Open() (line 122)
AppendOpenWith(oc) ==
    /\ running
    /\ started.append.on
    /\ loop.pc = "open"
    /\ LET s == Open(tail @@ hist, oc)
       IN  /\ tail' = [f \in DOMAIN tail |-> s[f]]
           /\ hist' = [f \in DOMAIN hist |-> s[f]]
           /\ loop' = OnOpen(loop, s)
    /\ UNCHANGED <<cur, made, content, ops, newVars, running, started>>

AppendOpen ==
    \E oc \in (IF tail.h # INVALID_HANDLE_VALUE THEN {"none"} ELSE OpenOutcomes) :
        AppendOpenWith(oc)

\* The handle open, the loop calls tail.ReadAppendedLines() (line 123)
AppendReadWith(io) ==
    /\ running
    /\ started.append.on
    /\ loop.pc = "read"
    /\ LET s == ReadAppendedLines(tail @@ hist, io)
       IN  /\ tail' = [f \in DOMAIN tail |-> s[f]]
           /\ hist' = [f \in DOMAIN hist |-> s[f]]
           /\ loop' = OnRead(loop, s)
    /\ UNCHANGED <<cur, made, content, ops, newVars, running, started>>

AppendRead == \E io \in IOs : AppendReadWith(io)

\* The loop builds the document from the lines (lines 125-127)
AppendParse ==
    /\ running
    /\ started.append.on
    /\ loop.pc = "parse"
    /\ \E ok \in BOOLEAN : loop' = OnParse(loop, ok)
    /\ UNCHANGED <<cur, made, content, ops, tail, hist, newVars, running, started>>

\* emit_rows calls onRow on the next row (lines 108-111)
AppendEmit ==
    /\ running
    /\ started.append.on
    /\ loop.pc = "emit"
    /\ \E thrown \in {"no", "std", "other"} :
           /\ loop' = OnEmit(loop, thrown)
           /\ running' = (thrown # "other")
    /\ UNCHANGED <<cur, made, content, ops, tail, hist, newVars, started>>

\* NewTick that reads the selected file through the cursor's handle and
\* closes it
NewTick_sharedHandle ==
    /\ running
    /\ started.new.on
    /\ \E io \in NewIOs :
           LET r == WatchNewTick(watch, io)
           IN  /\ watch' = r[1]
               /\ whist' = r[2]
               /\ running' = ~r[2].fatal
               /\ tail' = IF r[2].read
                          THEN [f \in DOMAIN tail |-> Close(tail @@ hist)[f]]
                          ELSE tail
               /\ UNCHANGED <<dir, ops, cur, made, content, hist, loop, started>>

\* One round of the loop of CreateWatchNew
NewTick ==
    /\ running
    /\ started.new.on
    /\ \E io \in NewIOs :
           LET r == WatchNewTick(watch, io)
           IN  /\ watch' = r[1]
               /\ whist' = r[2]
               /\ running' = ~r[2].fatal
               /\ UNCHANGED <<dir, ops, tailVars, started>>

\* Lines 116-119: CreateWatchAppend starts the thread, which constructs the
\* cursor with header skip and enters the loop
CreateWatchAppend(waitSeconds) ==
    /\ running
    /\ ~started.append.on
    /\ started' = [started EXCEPT !.append = Started(waitSeconds)]
    /\ tail' = NewTail(TRUE)
    /\ hist' = NewHist
    /\ loop' = NewLoop
    /\ UNCHANGED <<cur, made, content, ops, newVars, running>>

\* Lines 139-142: CreateWatchNew starts the thread, which enters the loop
\* with nothing remembered
CreateWatchNew(prefix, waitSeconds) ==
    /\ running
    /\ ~started.new.on
    /\ started' = [started EXCEPT !.new = Started(waitSeconds)]
    /\ watch' = NewWatch(prefix)
    /\ whist' = NoTick
    /\ UNCHANGED <<dir, ops, tailVars, running>>

NoEntry == [present |-> FALSE, isDir |-> FALSE, time |-> 0, data |-> <<>>]

\* A producer creates a file or a directory in the watched directory (the
\* selector reads no time of a directory)
DirCreate ==
    /\ running
    /\ ops < MaxOps
    /\ \E n \in Names, d \in BOOLEAN, t \in Times :
           /\ ~dir[n].present
           /\ d => t = 0
           /\ dir' = [dir EXCEPT ![n] = [present |-> TRUE, isDir |-> d,
                                         time |-> t, data |-> <<>>]]
    /\ ops' = ops + 1
    /\ whist' = NoTick
    /\ UNCHANGED <<watch, tailVars, running, started>>

\* What a producer writes in one step: a row, the start of a row, a
\* byte-order mark at the start of the file, or nothing (it touches the file)
Pieces(data) ==
    {<<>>, <<97, LF>>, <<97>>} \cup (IF data = <<>> THEN {BOM} ELSE {})

\* A producer writes to a file, which sets its last-write time
DirWrite ==
    /\ running
    /\ ops < MaxOps
    /\ \E n \in Names, t \in Times :
           /\ dir[n].present /\ ~dir[n].isDir
           /\ \E p \in Pieces(dir[n].data) :
                  dir' = [dir EXCEPT ![n].data = @ \o p, ![n].time = t]
    /\ ops' = ops + 1
    /\ whist' = NoTick
    /\ UNCHANGED <<watch, tailVars, running, started>>

\* A producer removes an entry
DirDelete ==
    /\ running
    /\ ops < MaxOps
    /\ \E n \in Names :
           /\ dir[n].present
           /\ dir' = [dir EXCEPT ![n] = NoEntry]
    /\ ops' = ops + 1
    /\ whist' = NoTick
    /\ UNCHANGED <<watch, tailVars, running, started>>

\* The append-mode side: the followed file exists and is empty, or does not
\* exist yet; the cursor is constructed with or without header skip
Init ==
    /\ made \in {0, 1}
    /\ cur = made
    /\ content = [f \in Files |-> <<>>]
    /\ ops = 0
    /\ \E sh \in BOOLEAN : tail = NewTail(sh)
    /\ hist = NewHist
    /\ dir = [n \in Names |-> NoEntry]
    /\ watch = NewWatch(<<>>)
    /\ whist = NoTick
    /\ loop = NewLoop
    /\ running = TRUE
    /\ started = [append |-> NotStarted, new |-> NotStarted]

\* The append-mode loop: CreateWatchAppend constructs the cursor with header
\* skip (line 119); the followed file exists and is empty, or does not exist
InitAppend ==
    /\ made \in {0, 1}
    /\ cur = made
    /\ content = [f \in Files |-> <<>>]
    /\ ops = 0
    /\ tail = NewTail(TRUE)
    /\ hist = NewHist
    /\ dir = [n \in Names |-> NoEntry]
    /\ watch = NewWatch(<<>>)
    /\ whist = NoTick
    /\ loop = NewLoop
    /\ running = TRUE
    /\ started = [append |-> Started(1), new |-> NotStarted]

\* The append-mode loop started on a path that names no file yet
InitAbsent ==
    /\ made = 0
    /\ cur = NoFile
    /\ content = [f \in Files |-> <<>>]
    /\ ops = 0
    /\ tail = NewTail(TRUE)
    /\ hist = NewHist
    /\ dir = [n \in Names |-> NoEntry]
    /\ watch = NewWatch(<<>>)
    /\ whist = NoTick
    /\ loop = NewLoop
    /\ running = TRUE
    /\ started = [append |-> Started(1), new |-> NotStarted]

\* The latest-file side: the watched directory is empty
InitNew ==
    /\ made = 0
    /\ cur = NoFile
    /\ content = [f \in Files |-> <<>>]
    /\ ops = 0
    /\ tail = NewTail(TRUE)
    /\ hist = NewHist
    /\ dir = [n \in Names |-> NoEntry]
    /\ \E p \in Prefixes : watch = NewWatch(p)
    /\ whist = NoTick
    /\ loop = NewLoop
    /\ running = TRUE
    /\ started = [append |-> NotStarted, new |-> Started(1)]

\* A followed file that only grows: created once, then appended to
GrowBytes == Letters \cup {CR, LF}
NextGrow ==
    \/ Tick
    \/ ProducerAppend(cur, GrowBytes, MaxGrow)
    \/ (made = 0 /\ ProducerCreate)

SpecGrow == Init /\ [][NextGrow]_vars

\* A followed file that is also truncated, deleted and replaced
RotBytes == Letters \cup {LF}
Next ==
    \/ Tick
    \/ \E f \in Files : ProducerAppend(f, RotBytes, MaxOps)
    \/ ProducerTruncate
    \/ ProducerCreate
    \/ ProducerDelete

Spec == Init /\ [][Next]_vars

\* The append-mode loop over a file that is appended to, truncated, deleted
\* and replaced
NextAppend ==
    \/ AppendOpen
    \/ AppendRead
    \/ AppendParse
    \/ AppendEmit
    \/ \E f \in Files : ProducerAppend(f, RotBytes, MaxOps)
    \/ ProducerTruncate
    \/ ProducerCreate
    \/ ProducerDelete

SpecAppend == InitAppend /\ [][NextAppend]_vars

\* The latest-file loop over a directory whose entries producers create,
\* write and remove
NextNew ==
    \/ NewTick
    \/ DirCreate
    \/ DirWrite
    \/ DirDelete

\* The append-mode loop on a path whose file is created after the loop has
\* started, and then only grows.  The loop is for (;;) and sleeps 500 ms
\* after a failed Open (line 122), so Open is always called again; the
\* fairness condition is on the calls in which CreateFileA succeeds: while
\* the file stays openable, such a call is made.
AppendOpenOk == \E oc \in {"noid", "ok"} : cur # NoFile /\ AppendOpenWith(oc)

NextAbsent ==
    \/ AppendOpen
    \/ AppendRead
    \/ AppendParse
    \/ AppendEmit
    \/ (made = 0 /\ ProducerCreate)
    \/ ProducerAppend(cur, RotBytes, MaxGrow)

SpecAbsent == InitAbsent /\ [][NextAbsent]_vars /\ WF_vars(AppendOpenOk)

\* The append-mode loop over a file that is appended to, truncated, deleted
\* and replaced a bounded number of times and is left alone from then on,
\* with the same fairness of the Open calls
SpecLive == InitAppend /\ [][NextAppend]_vars /\ WF_vars(AppendOpenOk)

\* A process that constructs the two watchers, with the intervals of
\* WaitArgs, on a followed file a producer appends lines to and an empty
\* directory
InitCreate ==
    /\ made = 1
    /\ cur = 1
    /\ content = [f \in Files |-> <<>>]
    /\ ops = 0
    /\ tail = NewTail(TRUE)
    /\ hist = NewHist
    /\ dir = [n \in Names |-> NoEntry]
    /\ watch = NewWatch(<<>>)
    /\ whist = NoTick
    /\ loop = NewLoop
    /\ running = TRUE
    /\ started = [append |-> NotStarted, new |-> NotStarted]

NextCreate ==
    \/ \E w \in WaitArgs : CreateWatchAppend(w)
    \/ \E p \in Prefixes, w \in WaitArgs : CreateWatchNew(p, w)
    \/ AppendOpen
    \/ AppendRead
    \/ AppendParse
    \/ AppendEmit
    \/ NewTick
    \/ ProducerAppend(cur, {LF}, MaxOps)

SpecCreate == InitCreate /\ [][NextCreate]_vars

\* A process in which both loops run: the followed file holds its header
\* line and the watched directory a file "a.csv" of one row; producers
\* append lines to the one and write to the other
MaxBoth == 2
InitBoth ==
    /\ made = 1
    /\ cur = 1
    /\ content = [f \in Files |-> IF f = 1 THEN <<LF>> ELSE <<>>]
    /\ ops = 0
    /\ tail = NewTail(TRUE)
    /\ hist = NewHist
    /\ dir = [n \in Names |->
                 IF n = <<97, 46, 99, 115, 118>>
                 THEN [present |-> TRUE, isDir |-> FALSE, time |-> 0,
                       data |-> <<97, LF>>]
                 ELSE NoEntry]
    /\ watch = NewWatch(<<>>)
    /\ whist = NoTick
    /\ loop = NewLoop
    /\ running = TRUE
    /\ started = [append |-> Started(1), new |-> Started(1)]

NextBoth ==
    \/ AppendOpen
    \/ AppendRead
    \/ AppendParse
    \/ AppendEmit
    \/ NewTick
    \/ ProducerAppend(cur, {LF}, MaxBoth)
    \/ (ops < MaxBoth /\ DirWrite)

SpecBoth == InitBoth /\ [][NextBoth]_vars

SpecNew == InitNew /\ [][NextNew]_vars

(***************************************************************************)
(* Reference definitions for the properties: the lines of a byte string.   *)
(***************************************************************************)
LFs(bytes) == {i \in 1..Len(bytes) : bytes[i] = LF}

\* A segment without the one CR that ends it, if any
TrimCR(seg) ==
    IF seg # <<>> /\ seg[Len(seg)] = CR THEN SubSeq(seg, 1, Len(seg) - 1) ELSE seg

\* The LF-terminated segments of bytes, in order, each without its CR
Segments(bytes) ==
    LET ends == LFs(bytes)
        End(k) == CHOOSE i \in ends : Cardinality({j \in ends : j <= i}) = k
        Start(k) == IF k = 1 THEN 1 ELSE End(k - 1) + 1
    IN  [k \in 1..Cardinality(ends) |-> TrimCR(SubSeq(bytes, Start(k), End(k) - 1))]

\* The bytes after the last LF
Residue(bytes) ==
    LET ends == LFs(bytes)
    IN  IF ends = {} THEN bytes
        ELSE SubSeq(bytes, (CHOOSE i \in ends : \A j \in ends : j <= i) + 1, Len(bytes))

HasBom(bytes) == Len(bytes) >= 3 /\ SubSeq(bytes, 1, 3) = BOM
NoBom(bytes) == IF HasBom(bytes) THEN SubSeq(bytes, 4, Len(bytes)) ELSE bytes
Rest(lines) == IF lines = <<>> THEN <<>> ELSE Tail(lines)

\* The data lines of a file: its segments after the byte-order mark, and after
\* the header line when the header is skipped
DataLines(bytes, skipHeader) ==
    IF skipHeader THEN Rest(Segments(NoBom(bytes))) ELSE Segments(NoBom(bytes))

\* The bytes of the handle's file the cursor has passed
Passed == SubSeq(content[tail.h], 1, tail.offset)

(***************************************************************************)
(* C1.  Chunking-invariance: over a file that only grows, the lines        *)
(* returned by all the calls so far are the data lines of the bytes read   *)
(* so far, however the bytes were split over calls and read chunks.        *)
(***************************************************************************)
C1_ChunkingInvariance ==
    tail.h # INVALID_HANDLE_VALUE =>
        hist.delivered = DataLines(Passed, tail.skipHeader)

\* a is b, or b without its byte-order mark
SameButBom(a, b) == a = b \/ a = NoBom(b)

(***************************************************************************)
(* C2.  No partial-record delivery: since the last reset the cursor has    *)
(* returned one line for every LF it has read (the header's aside), each   *)
(* the segment that LF ends; the bytes read after the last LF are in carry *)
(* and in no returned line.                                                *)
(***************************************************************************)
C2_NoPartialLine ==
    LET segs == Segments(hist.consumed)
        want == IF tail.skipHeader THEN Rest(segs) ELSE segs
        got  == hist.delivered
    IN  /\ Len(got) = Len(want)
        /\ \A i \in 1..Len(got) :
               IF i = 1 /\ ~tail.skipHeader
               THEN SameButBom(got[i], want[i])
               ELSE got[i] = want[i]
        /\ LFs(tail.carry) = {}
        /\ IF segs = <<>>
           THEN SameButBom(tail.carry, hist.consumed)
           ELSE tail.carry = Residue(hist.consumed)
        /\ Len(hist.out) <= Len(got)
        /\ hist.out = SubSeq(got, Len(got) - Len(hist.out) + 1, Len(got))

\* Bytes of an unterminated line wait in carry after a line was returned, and
\* the last call returned nothing
C2_Witness ==
    /\ tail.carry # <<>>
    /\ hist.delivered # <<>>
    /\ hist.out = <<>>

(***************************************************************************)
(* Truncation and replacement.                                             *)
(***************************************************************************)
\* The lines and the carry the cursor holds come from the bytes it has read
\* since the last reset, and from nothing else
FromConsumed == C2_NoPartialLine

\* A step that is a call of ReadAppendedLines (every producer step counts in ops)
Called == ops' = ops

\* The cursor has been reset and has read the handle's file from byte 0
ReadFromStart ==
    /\ tail.h # INVALID_HANDLE_VALUE
    /\ tail.offset <= Len(content[tail.h])
    /\ hist.consumed = Passed
    /\ hist.delivered = hist.out
    /\ FromConsumed

\* Every Win32 call of the call succeeds, and every ReadFile reads in full
AllOk(io) ==
    /\ io.open \in {"none", "ok"}
    /\ io.probe \in {"none", "info"}
    /\ io.reopen \in {"none", "ok"}
    /\ io.size /\ io.seek /\ io.plan = NoPlan

CallWith(io) ==
    /\ tail' @@ hist' = ReadAppendedLines(tail @@ hist, io)
    /\ UNCHANGED <<cur, made, content, ops, newVars, loop, running, started>>

AtEnd == tail.h # INVALID_HANDLE_VALUE /\ tail.offset = Len(content[tail.h])

\* C3 as claimed: once the producer has truncated the followed file to less
\* than offset bytes, the next call (no Win32 call of it failing) resets the
\* cursor and reads the whole file from byte 0, whatever the producer appended
\* after the truncation
C3_Original ==
    [][\A io \in IOs :
          (hist.shrunk /\ AllOk(io) /\ CallWith(io))
          => (AtEnd' /\ ReadFromStart')]_vars

\* C3 as amended: a call that finds the size of the file smaller than offset
\* (the file was truncated, and not appended to up to offset again) resets
\* offset, carry and the flags, reads the file from byte 0 and returns the
\* complete lines of the bytes it read, and no byte of the old carry
C3_Truncation ==
    [][(Called /\ hist'.ev.truncated)
       => /\ hist.shrunk
          /\ tail.h # INVALID_HANDLE_VALUE
          /\ Len(content[tail.h]) < tail.offset
          /\ hist'.ev.was = tail.offset
          /\ tail'.h = tail.h
          /\ ReadFromStart'
          /\ (tail'.offset = 0 =>
                 tail'.carry = <<>> /\ ~tail'.bomStripped /\ ~tail'.headerSkipped)]_vars

\* A truncation was found with bytes in carry, and the call returned a line of
\* the new content
C3_Witness ==
    /\ hist.ev.truncated
    /\ hist.out # <<>>
    /\ hist.ev.was > Len(content[tail.h])
    /\ hist.consumed = content[tail.h]

(***************************************************************************)
(* C4.  Replacement: a call made while the path names a file other than    *)
(* the one the handle was opened on, and whose probe reads the identity,   *)
(* finds the replacement whatever the sizes are, closes the handle and     *)
(* opens the new file; what it reads, it reads from byte 0 of the new      *)
(* file.                                                                   *)
(***************************************************************************)
C4_Replacement ==
    [][(/\ tail.h # INVALID_HANDLE_VALUE
        /\ tail.hasFileId
        /\ cur # tail.fileId
        /\ Called)
       => \A io \in IOs :
              (io.probe = "info" /\ CallWith(io))
              => /\ hist'.ev.replaced
                 /\ hist'.ev.was = tail.offset
                 /\ IF io.reopen = "fail"
                    THEN tail'.h = INVALID_HANDLE_VALUE
                    ELSE tail'.h = cur /\ ReadFromStart']_vars

\* A replacement by a file as long as the old offset was found, and the new
\* file was read from byte 0 to its end
C4_Witness ==
    /\ hist.ev.replaced
    /\ hist.ev.was > 0
    /\ cur # NoFile
    /\ tail.h = cur
    /\ hist.ev.was = Len(content[cur])
    /\ hist.consumed = content[cur]
    /\ hist.out # <<>>

(***************************************************************************)
(* C5.  The byte-order mark at the start of the followed file is in no     *)
(* returned line.                                                          *)
(***************************************************************************)
C5_BomNeverDelivered ==
    (tail.h # INVALID_HANDLE_VALUE /\ HasBom(hist.consumed))
    => \A i \in 1..Len(hist.delivered) : ~HasBom(hist.delivered[i])

\* C6 as claimed: the cursor drops one header line in the lifetime of a handle
C6_Original == hist.hdrSkips <= 1

\* C6 as amended: with header-skip on, the cursor drops the first line once
\* after every reset_state (an open or a truncation found): while the bytes
\* read since the reset hold no LF nothing is returned, and from then on the
\* lines returned are all the complete lines but the first
C6_Header ==
    tail.skipHeader =>
        LET segs == Segments(hist.consumed)
        IN  /\ tail.headerSkipped <=> segs # <<>>
            /\ hist.delivered = Rest(segs)
            /\ ~tail.headerSkipped => hist.delivered = <<>> /\ hist.out = <<>>

\* The header was dropped and a later line returned, after the header had come
\* in two calls
C6_Witness ==
    /\ tail.skipHeader
    /\ tail.headerSkipped
    /\ hist.delivered # <<>>
    /\ Len(Segments(hist.consumed)[1]) > 0

(***************************************************************************)
(* The latest-file selector and loop.                                      *)
(***************************************************************************)
\* The last four characters are ".csv" in any mix of cases
DotCsv(n) ==
    /\ Len(n) >= 4
    /\ n[Len(n) - 3] = 46
    /\ n[Len(n) - 2] \in {99, 67}
    /\ n[Len(n) - 1] \in {115, 83}
    /\ n[Len(n)] \in {118, 86}

StartsWith(n, p) == Len(n) >= Len(p) /\ \A i \in 1..Len(p) : n[i] = p[i]

\* The candidates of the directory: regular files whose name starts with the
\* prefix and ends in ".csv"
Candidates ==
    {n \in Names : dir[n].present /\ ~dir[n].isDir
                   /\ StartsWith(n, watch.prefix) /\ DotCsv(n)}

\* a comes before b in the lexicographic order
RECURSIVE LexLess(_, _)
LexLess(a, b) ==
    IF b = <<>> THEN FALSE
    ELSE IF a = <<>> THEN TRUE
    ELSE IF a[1] # b[1] THEN a[1] < b[1]
    ELSE LexLess(Tail(a), Tail(b))

\* The candidate with the greatest time and, among those, the greatest name
Latest ==
    CHOOSE n \in Candidates :
        \A m \in Candidates \ {n} :
            \/ dir[m].time < dir[n].time
            \/ dir[m].time = dir[n].time /\ LexLess(m, n)

\* C7.  Whenever the directory has candidates, findLatestCsvByPrefix returns
\* the one with the greatest last-write time and, among those with that time,
\* the one with the lexicographically greatest name, whatever the order in
\* which the directory entries are enumerated.
C7_LatestSelection ==
    Candidates # {} =>
        \A o \in Orders :
            findLatestCsvByPrefix(watch.dir, o) = joinPath(watch.dir, Latest)

\* A tick has selected among two or more candidates that all have the same
\* time, with some entry enumerated before or after them
C7_Witness ==
    /\ Cardinality(Candidates) >= 2
    /\ \A n, m \in Candidates : dir[n].time = dir[m].time
    /\ whist.listed
    /\ whist.latest = joinPath(watch.dir, Latest)

\* C8.  findLatestCsvByPrefix returns only candidates (regular files whose
\* name starts with the prefix and ends in ".csv" in any case), and it returns
\* the empty path exactly when the directory cannot be enumerated or has no
\* candidate: a candidate with time 0 is returned, and so is any ".csv" file
\* when the prefix is empty.
C8_SelectorFilter ==
    \A o \in Orders \cup {<<>>} :
        LET r == findLatestCsvByPrefix(watch.dir, o)
        IN  /\ r = <<>> <=> (o = <<>> \/ Candidates = {})
            /\ r # <<>> => \E n \in Candidates : r = joinPath(watch.dir, n)

\* With the empty prefix, a tick has selected the only candidate, whose time
\* is 0 and whose extension is in upper case, next to a directory
C8_Witness ==
    /\ watch.prefix = <<>>
    /\ Cardinality(Candidates) = 1
    /\ \A n \in Candidates :
           /\ dir[n].time = 0
           /\ SubSeq(n, Len(n) - 3, Len(n)) # <<46, 99, 115, 118>>
           /\ whist.latest = joinPath(watch.dir, n)
    /\ \E m \in Names : dir[m].present /\ dir[m].isDir

\* A step of the latest-file loop: producers count their steps, the loop
\* does not
NewCalled == ops' = ops

\* C9.  A tick that can query the time of the selected file reads the file
\* if and only if the selector found one and its path differs from lastPath or
\* its time is greater than lastTime; the tick then passes the rows to the
\* handler and completes unless the read, the parser or the handler fails.  A
\* tick that does not read calls no handler and changes nothing.
C9_RereadTrigger ==
    [][(NewCalled /\ ~whist'.noAttr) =>
          LET latest == whist'.latest
              trigger == /\ latest # <<>>
                         /\ \/ latest # watch.lastPath
                            \/ dir[NameOf(latest)].time > watch.lastTime
          IN  /\ whist'.read <=> trigger
              /\ ~trigger => whist'.rows = <<>> /\ watch' = watch
              /\ (trigger /\ ~whist'.failed) => whist'.done]_vars

\* A tick has read again the file it remembered, because its time had grown
C9_Witness ==
    /\ whist.read /\ whist.done
    /\ whist.latest = whist.wasPath
    /\ whist.t > whist.wasTime

\* C10.  A tick that reads the selected file and completes has passed to the
\* handler every row of the whole content of the file (after the byte-order
\* mark), in order and from the first row; the loop keeps the path and the
\* time of the file it read, nothing else.
C10_FullSnapshot ==
    [][(NewCalled /\ whist'.done) =>
          /\ whist'.rows = ParseRows(NoBom(dir[NameOf(whist'.latest)].data))
          /\ watch' = [watch EXCEPT !.lastPath = whist'.latest,
                                    !.lastTime = whist'.t]]_vars

\* A tick has read again, in more than one buffer, the file an earlier tick
\* had read, and has passed its rows from the first one
C10_Witness ==
    /\ whist.done
    /\ whist.wasPath = whist.latest
    /\ Len(whist.rows) >= 2
    /\ dir[NameOf(whist.latest)].present
    /\ Len(dir[NameOf(whist.latest)].data) > kBuf
    /\ whist.rows = ParseRows(NoBom(dir[NameOf(whist.latest)].data))

\* C11.  The loop changes lastPath and lastTime only in a tick that read and
\* parsed the selected file and handed every row to the handler, and then to
\* the path and the time of that file; a tick whose read, parse or handler
\* fails leaves both as they were, and the next tick over the same directory
\* (if it can enumerate it and query the time) selects the same file and reads
\* it again.
C11_RememberedState ==
    [][NewCalled =>
          /\ watch' # watch =>
                 /\ whist'.done
                 /\ watch' = [watch EXCEPT !.lastPath = whist'.latest,
                                           !.lastTime = whist'.t]
          /\ whist'.failed => watch' = watch
          /\ (whist.failed /\ whist'.listed /\ ~whist'.noAttr) =>
                 whist'.read /\ whist'.latest = whist.latest]_vars

\* After a file was read and remembered, the tick on a newer file failed and
\* the loop still remembers the first file
C11_Witness ==
    /\ whist.failed
    /\ ~whist.fatal
    /\ watch.lastPath # <<>>
    /\ whist.latest # watch.lastPath
    /\ whist.wasPath = watch.lastPath
    /\ whist.wasTime = watch.lastTime

\* A step of the loop of CreateWatchAppend (every producer step counts in ops)
LoopStep == ops' = ops

\* C12.  No error ends a watch loop: whatever fails in a round (the open, the
\* size query, a read, the parse, the row handler), the loop is still running
\* afterwards.
C12_NoErrorStopsLoop == running

\* The last call of ReadAppendedLines reset the cursor
WasReset == hist.ev.opened \/ hist.ev.truncated

\* C13.  When the parser throws on a chunk, no row of that chunk is handed to
\* the handler and the cursor keeps the offset and the carry it had after the
\* read; the next read goes on from that offset (or from byte 0 after a
\* reset), so it returns none of the lines of the failed chunk again, and the
\* lines it returns are the ones handed to the parser.
C13_ParseFailure ==
    /\ [][/\ (LoopStep /\ loop.pc = "parse" /\ loop'.pc # "emit") =>
                 /\ loop'.pc = "open"
                 /\ loop'.lines = <<>> /\ loop'.rows = <<>>
                 /\ loop'.handled = <<>>
                 /\ tail' = tail
                 /\ hist' = hist
          /\ (LoopStep /\ loop.pc = "read" /\ loop.end = "parse") =>
                 /\ WasReset' => hist'.delivered = hist'.out
                 /\ ~WasReset' =>
                        /\ tail'.offset >= tail.offset
                        /\ hist'.consumed = hist.consumed \o
                               (IF tail'.offset > tail.offset
                                THEN SubSeq(content[tail.h], tail.offset + 1,
                                            tail'.offset)
                                ELSE <<>>)
                        /\ hist'.delivered = hist.delivered \o hist'.out
                 /\ loop'.lines = hist'.out]_vars
    /\ [](loop.pc \in {"parse", "emit"} => loop.lines = hist.out /\ loop.lines # <<>>)

\* The parser threw on a chunk, and a later round on the same handle has
\* parsed a line appended since and is calling the handler on its row
C13_Witness ==
    /\ loop.end = "parse"
    /\ loop.pc = "emit"
    /\ loop.rows # <<>>
    /\ ~WasReset
    /\ Len(hist.delivered) > Len(hist.out)

\* C14.  The append-mode loop tolerates a path that names no file when it
\* starts: a round whose Open fails ends there, with neither the parser nor
\* the handler called, nothing of the cursor changed but the recorded error,
\* and the loop still running; the Open that succeeds resets the cursor on
\* the file the path names, and the read that follows it returns the complete
\* data lines of the bytes it read from byte 0.  Once the file exists (and
\* stays openable) the cursor eventually holds a handle to it.
C14_AbsentAtStart ==
    /\ [][/\ (LoopStep /\ loop.pc = "open"
                       /\ tail'.h = INVALID_HANDLE_VALUE) =>
                 /\ loop'.pc = "open" /\ loop'.end = "idle"
                 /\ loop'.handled = <<>> /\ loop'.rows = <<>>
                 /\ [tail' EXCEPT !.lastErr = tail.lastErr] = tail
                 /\ hist' = hist
                 /\ running'
          /\ (LoopStep /\ tail.h = INVALID_HANDLE_VALUE
                       /\ tail'.h # INVALID_HANDLE_VALUE) =>
                 /\ loop.pc = "open" /\ loop'.pc = "read"
                 /\ tail'.h = cur
                 /\ tail'.offset = 0 /\ tail'.carry = <<>>
                 /\ ~tail'.bomStripped /\ ~tail'.headerSkipped
                 /\ hist'.consumed = <<>> /\ hist'.delivered = <<>>
          /\ (LoopStep /\ loop.pc = "read" /\ hist.ev.opened
                       /\ tail'.h = tail.h) =>
                 /\ tail'.offset <= Len(content[tail.h])
                 /\ hist'.consumed = SubSeq(content[tail.h], 1, tail'.offset)
                 /\ hist'.out = DataLines(hist'.consumed, TRUE)
                 /\ loop'.lines = hist'.out]_vars
    /\ (cur # NoFile) ~> (tail.h = cur)

\* The loop went through a round whose open failed, the file was created and
\* written afterwards, and the cursor has opened it and returned its data line
C14_Witness ==
    /\ tail.lastErr = "GetLastError"
    /\ tail.h = cur /\ cur # NoFile
    /\ hist.consumed = content[cur]
    /\ hist.delivered = DataLines(content[cur], TRUE)
    /\ hist.delivered # <<>>

\* C15.  Invalid constructor arguments are rejected at construction: no
\* thread of CreateWatchAppend or CreateWatchNew is started with a negative
\* poll interval.
C15_InvalidArgsRejected ==
    \A m \in {"append", "new"} :
        started[m].on => started[m].waitSeconds >= 0

\* C16.  The rounds of the append-mode loop are strictly sequential.  While
\* emit_rows runs, the rows are those of the chunk of the lines just read and
\* the handler has been called on exactly the rows before row i, in order; a
\* round that ends without a throw has called it once on every row; the
\* cursor is opened or read only at the top of a round, when no line and no
\* row of an earlier round is left; and a round whose read returns no line
\* calls neither the parser nor the handler.
C16_SequentialRounds ==
    /\ [](loop.pc = "emit" =>
              /\ loop.rows = ParseRows(JoinLines(loop.lines))
              /\ loop.i \in 1..Len(loop.rows)
              /\ loop.handled = SubSeq(loop.rows, 1, loop.i - 1))
    /\ [](loop.pc \in {"open", "read"} => loop.lines = <<>> /\ loop.rows = <<>>)
    /\ [][/\ (LoopStep /\ loop.pc = "emit" /\ loop'.pc = "open") =>
                 /\ loop'.end \in {"done", "row"}
                 /\ loop'.end = "done" => loop'.handled = loop.rows
          /\ (LoopStep /\ (tail' # tail \/ hist' # hist)) =>
                 loop.pc \in {"open", "read"}
          /\ (LoopStep /\ loop.pc = "read" /\ hist'.out = <<>>) =>
                 /\ loop'.pc = "open" /\ loop'.end = "empty"
                 /\ loop'.handled = <<>> /\ loop'.rows = <<>>
          /\ (LoopStep /\ loop.pc = "read" /\ hist'.out # <<>>) =>
                 /\ loop'.pc = "parse" /\ loop'.lines = hist'.out
                 /\ loop'.handled = <<>>]_vars

\* A round has ended after the handler was called on both rows of its chunk
C16_Witness ==
    /\ loop.pc = "open"
    /\ loop.end = "done"
    /\ Len(loop.handled) = 2
    /\ Len(hist.out) = 2

\* C17.  The two loops share no mutable state: in every interleaving, a step
\* of the append-mode loop leaves the latest-file loop's remembered path and
\* time, its tick and the watched directory as they were, and a step of the
\* latest-file loop leaves the cursor (its handle included), the append-mode
\* loop's position and locals and the followed file as they were.
C17_NoSharedState ==
    [][LoopStep =>
          /\ (tail' # tail \/ hist' # hist \/ loop' # loop) =>
                 /\ watch' = watch
                 /\ whist' = whist
                 /\ dir' = dir
          /\ (watch' # watch \/ whist' # whist) =>
                 /\ tail' = tail
                 /\ hist' = hist
                 /\ loop' = loop
                 /\ <<cur, made, content>>' = <<cur, made, content>>]_vars

\* The latest-file loop has read a file and remembered it while the
\* append-mode loop is inside emit_rows, the cursor's handle open
C17_Witness ==
    /\ loop.pc = "emit"
    /\ tail.h # INVALID_HANDLE_VALUE
    /\ whist.done
    /\ whist.rows # <<>>
    /\ watch.lastPath = whist.latest

\* C18 as claimed: once the cursor holds a handle, no later round leaves it
\* without one
C18_Original ==
    [][tail.h # INVALID_HANDLE_VALUE => tail'.h # INVALID_HANDLE_VALUE]_vars

\* C18 as amended.  A round leaves the cursor, once opened, without a handle
\* only when its call of ReadAppendedLines found the file at the path
\* replaced, closed the old handle and failed to open the new file; that call
\* returns no line, records the error and keeps offset and carry.  Failed
\* size queries, seeks and reads, truncations, the path naming no file, and
\* probes that fail keep the handle.  After it the loop is back to retrying
\* Open at the top of each round.
C18_Following ==
    [][/\ (tail.h # INVALID_HANDLE_VALUE /\ tail'.h = INVALID_HANDLE_VALUE) =>
              /\ LoopStep /\ loop.pc = "read"
              /\ hist'.ev.replaced /\ ~hist'.ev.opened
              /\ tail.hasFileId /\ cur # NoFile /\ cur # tail.fileId
              /\ hist'.out = <<>>
              /\ tail'.lastErr = "GetLastError"
              /\ tail'.offset = tail.offset /\ tail'.carry = tail.carry
              /\ loop'.pc = "open" /\ loop'.end = "empty"
       /\ (LoopStep /\ tail.h # INVALID_HANDLE_VALUE
                    /\ (loop.pc # "read" \/ ~hist'.ev.replaced)) =>
              tail'.h = tail.h
       /\ (LoopStep /\ tail.h # INVALID_HANDLE_VALUE /\ loop.pc = "read"
                    /\ hist'.ev.replaced /\ hist'.ev.opened) =>
              tail'.h = cur /\ tail'.h # tail.h]_vars

\* After lines were read the file was replaced, the open of the new file
\* failed, and the cursor is left without a handle, its offset kept
C18_Witness ==
    /\ tail.h = INVALID_HANDLE_VALUE
    /\ hist.ev.replaced
    /\ tail.offset > 0
    /\ hist.delivered # <<>>
    /\ loop.pc = "open"

\* C19.  offset is the number of bytes of the handle's file the cursor has
\* appended to carry since the last reset, and (unless the file was truncated
\* below offset since) those bytes are the first offset bytes of the file.
\* A step leaves offset as it was, or is a call that read the next
\* offset' - offset bytes of the file, or is a call that reset the cursor
\* (offset 0, carry empty, flags cleared) and read from byte 0.
C19_Offset ==
    /\ [](/\ tail.offset = Len(hist.consumed)
          /\ (tail.h # INVALID_HANDLE_VALUE /\ ~hist.shrunk) =>
                 /\ tail.offset <= Len(content[tail.h])
                 /\ hist.consumed = Passed)
    /\ [][\/ tail'.offset = tail.offset
          \/ /\ Called /\ ~WasReset'
             /\ tail'.h = tail.h
             /\ tail'.offset > tail.offset
             /\ tail'.offset <= Len(content[tail.h])
             /\ hist'.consumed = hist.consumed \o
                    SubSeq(content[tail.h], tail.offset + 1, tail'.offset)
          \/ /\ Called /\ WasReset'
             /\ ReadFromStart'
             /\ (tail'.offset = 0 =>
                    /\ tail'.carry = <<>>
                    /\ ~tail'.bomStripped /\ ~tail'.headerSkipped)]_vars

\* A call found the file truncated, set offset to 0 and read the shorter
\* content; offset is below what it was
C19_Witness ==
    /\ hist.ev.truncated
    /\ tail.offset > 0
    /\ tail.offset < hist.ev.was
    /\ tail.offset = Len(content[tail.h])

\* C20.  A call of ReadAppendedLines whose size query fails records the
\* error and returns no line, and the failing query changes nothing else:
\* offset, carry, bomStripped and headerSkipped are what they were before the
\* call, or, when the call had just opened a handle, what the open set them
\* to.
C20_SizeFailure ==
    [][(Called /\ hist'.ev.sizeFailed) =>
          /\ hist'.out = <<>>
          /\ tail'.lastErr = "GetLastError"
          /\ hist'.delivered = (IF hist'.ev.opened THEN <<>> ELSE hist.delivered)
          /\ IF hist'.ev.opened
             THEN /\ tail'.offset = 0 /\ tail'.carry = <<>>
                  /\ ~tail'.bomStripped /\ ~tail'.headerSkipped
             ELSE /\ tail'.offset = tail.offset
                  /\ tail'.carry = tail.carry
                  /\ tail'.bomStripped = tail.bomStripped
                  /\ tail'.headerSkipped = tail.headerSkipped]_vars

\* The size query of the last call failed with bytes waiting in carry and
\* more bytes in the file: nothing was read and carry is as it was
C20_Witness ==
    /\ hist.ev.sizeFailed
    /\ tail.h # INVALID_HANDLE_VALUE
    /\ ~hist.ev.opened
    /\ tail.carry # <<>>
    /\ tail.offset < Len(content[tail.h])
    /\ hist.out = <<>>

\* C21.  Steady state: a call made with the handle open, the file as long as
\* offset, and no replacement found returns no line and leaves the handle,
\* offset, carry and the flags as they were (only a failing size query
\* records its error); a replacement is not found while the path names the
\* handle's file.  The state being unchanged, so is every repeated call.
C21_SteadyState ==
    [][(/\ Called
        /\ tail.h # INVALID_HANDLE_VALUE
        /\ Len(content[tail.h]) = tail.offset)
       => /\ cur = tail.h => ~hist'.ev.replaced
          /\ ~hist'.ev.replaced =>
                 /\ hist'.out = <<>>
                 /\ [tail' EXCEPT !.lastErr = tail.lastErr] = tail
                 /\ tail'.lastErr # tail.lastErr => hist'.ev.sizeFailed
                 /\ hist'.consumed = hist.consumed
                 /\ hist'.delivered = hist.delivered
                 /\ ~hist'.ev.opened /\ ~hist'.ev.truncated]_vars

\* Lines were returned earlier; the last call found the file as long as
\* offset and returned nothing
C21_Witness ==
    /\ tail.h = cur /\ cur # NoFile
    /\ tail.offset = Len(content[tail.h])
    /\ tail.carry = <<>>
    /\ hist.delivered # <<>>
    /\ hist.out = <<>>
    /\ ~hist.ev.opened /\ ~hist.ev.truncated /\ ~hist.ev.sizeFailed

\* The calls of ReadAppendedLines the environment can make now in which the
\* replacement probe cannot open the path
ProbeFails == {io \in IOs : io.probe = "fail"}

\* C22.  When the replacement probe cannot open the path, the check does
\* nothing: the handle stays open on the same file with the same identity,
\* offset, carry and the flags are what they were when the check was made,
\* and the call goes on to read that handle: from the old offset (from byte
\* 0 when it finds the file truncated), up to the end of the file when the
\* size query, the seek and the reads succeed.
C22_ProbeFails ==
    tail.h # INVALID_HANDLE_VALUE =>
        /\ \A oc \in {"none", "fail", "noid", "ok"} :
               refresh_if_replaced(tail @@ hist, "fail", oc) = tail @@ hist
        /\ \A io \in ProbeFails :
               LET r == ReadAppendedLines(tail @@ hist, io)
               IN  /\ r.h = tail.h
                   /\ r.fileId = tail.fileId /\ r.hasFileId
                   /\ ~r.ev.replaced /\ ~r.ev.opened
                   /\ ~r.ev.truncated =>
                          /\ r.offset >= tail.offset
                          /\ r.consumed = hist.consumed \o
                                 (IF r.offset > tail.offset
                                  THEN SubSeq(content[tail.h], tail.offset + 1,
                                              r.offset)
                                  ELSE <<>>)
                   /\ r.ev.truncated =>
                          r.consumed = SubSeq(content[tail.h], 1, r.offset)
                   /\ (io.size /\ io.seek /\ io.plan = NoPlan) =>
                          r.offset = Len(content[tail.h])

\* The path names no file, so the probe of the next call fails; the handle
\* has bytes in carry and a line to read, and the call returns that line
C22_Witness ==
    /\ cur = NoFile
    /\ tail.h # INVALID_HANDLE_VALUE /\ tail.hasFileId
    /\ tail.carry # <<>>
    /\ tail.offset < Len(content[tail.h])
    /\ ProbeFails = IOs
    /\ \E io \in ProbeFails :
           LET r == ReadAppendedLines(tail @@ hist, io)
           IN  r.out # <<>> /\ Head(r.out) # <<>> /\ r.h = tail.h

\* C23.  A handle opened without its identity has the replacement check do
\* nothing for as long as it is open: whatever the probe would find, the
\* check returns the cursor unchanged, and every call keeps the handle, opens
\* nothing and leaves the identity missing; a file found shorter than offset
\* is still detected as truncated and read again from byte 0, and otherwise
\* the call consumes the bytes of the handle's file from the old offset on.
\* A handle the call itself opens without identity is treated the same way.
C23_NoIdentity ==
    /\ (tail.h # INVALID_HANDLE_VALUE /\ ~tail.hasFileId) =>
        /\ \A pc \in {"fail", "noinfo", "info"}, oc \in {"fail", "noid", "ok"} :
               refresh_if_replaced(tail @@ hist, pc, oc) = tail @@ hist
        /\ \A io \in IOs :
               LET r == ReadAppendedLines(tail @@ hist, io)
                   size == Len(content[tail.h])
               IN  /\ r.h = tail.h /\ ~r.hasFileId
                   /\ ~r.ev.replaced /\ ~r.ev.opened
                   /\ r.ev.truncated <=> (io.size /\ size < tail.offset)
                   /\ r.ev.truncated =>
                          r.consumed = SubSeq(content[tail.h], 1, r.offset)
                   /\ ~r.ev.truncated =>
                          /\ r.offset >= tail.offset
                          /\ r.consumed = hist.consumed \o
                                 (IF r.offset > tail.offset
                                  THEN SubSeq(content[tail.h], tail.offset + 1,
                                              r.offset)
                                  ELSE <<>>)
                   /\ (io.size /\ io.seek /\ io.plan = NoPlan) =>
                          r.offset = size
    /\ tail.h = INVALID_HANDLE_VALUE =>
        \A io \in IOs :
            io.open = "noid" =>
                LET r == ReadAppendedLines(tail @@ hist, io)
                IN  r.h = cur /\ ~r.hasFileId /\ ~r.ev.replaced

\* A handle without identity that has been read from, whose file was replaced
\* at the path and written to afterwards: the next call keeps the handle and
\* returns a line of the old file
C23_Witness ==
    /\ tail.h # INVALID_HANDLE_VALUE /\ ~tail.hasFileId
    /\ cur # NoFile /\ cur # tail.h
    /\ tail.offset > 0
    /\ \E io \in IOs :
           LET r == ReadAppendedLines(tail @@ hist, io)
           IN  r.out # <<>> /\ r.h = tail.h /\ r.h # cur

\* The calls the environment can make now in which the size query and the
\* seek succeed and one ReadFile call fails or returns zero bytes
EarlyEnds ==
    {io \in IOs : /\ io.size /\ io.seek
                  /\ io.plan.at > 0
                  /\ (~io.plan.ok \/ io.plan.n = 0)}

\* A later call on the open handle in which everything succeeds and the
\* replacement check finds nothing (pc: what its probe meets)
Resume(pc) ==
    [open |-> "none", probe |-> pc, reopen |-> "none", size |-> TRUE,
     seek |-> TRUE, plan |-> NoPlan]

\* C24.  A call in which a ReadFile fails or returns zero bytes stops
\* reading there: it returns the lines an undisturbed call would have
\* returned first, offset and the consumed bytes cover exactly the bytes of
\* the file read so far, and a later successful call reads the rest, so that
\* the two calls together consume each byte once and return the lines of the
\* undisturbed call, leaving the same carry.
C24_EarlyEnd ==
    \A io \in EarlyEnds :
        LET s == tail @@ hist
            r == ReadAppendedLines(s, io)
            full == ReadAppendedLines(s, [io EXCEPT !.plan = NoPlan])
            fresh == r.ev.opened \/ r.ev.truncated
            start == IF fresh THEN 0 ELSE tail.offset
            before == IF fresh THEN <<>> ELSE hist.consumed
            data == content[r.h]
        IN  r.h # INVALID_HANDLE_VALUE =>
                /\ start <= r.offset /\ r.offset <= Len(data)
                /\ r.consumed = before \o
                       (IF r.offset > start THEN SubSeq(data, start + 1, r.offset)
                        ELSE <<>>)
                /\ Len(r.out) <= Len(full.out)
                /\ r.out = SubSeq(full.out, 1, Len(r.out))
                /\ \A pc \in {"fail", "noinfo"} :
                       LET r2 == ReadAppendedLines(r, Resume(pc))
                       IN  /\ r2.offset = Len(data)
                           /\ r2.consumed = before \o
                                  (IF Len(data) > start
                                   THEN SubSeq(data, start + 1, Len(data))
                                   ELSE <<>>)
                           /\ r.out \o r2.out = full.out
                           /\ r2.carry = full.carry
                           /\ r2.delivered = full.delivered

\* A call whose second ReadFile fails returns a line of the first chunk and
\* leaves bytes of the file unread
C24_Witness ==
    \E io \in EarlyEnds :
        LET r == ReadAppendedLines(tail @@ hist, io)
        IN  /\ ~io.plan.ok /\ io.plan.at = 2
            /\ r.out # <<>>
            /\ r.offset > tail.offset
            /\ r.offset < Len(content[r.h])
            /\ r.lastErr = "GetLastError"

\* What a newly constructed cursor makes of the file the path names in one
\* call: oc the outcome of its open, rd those of the size query, the seek and
\* the reads
FreshCall(oc, rd) ==
    ReadAppendedLines(NewTail(tail.skipHeader) @@ NewHist,
                      [open |-> oc, probe |-> "fail", reopen |-> "none",
                       size |-> rd.size, seek |-> rd.seek, plan |-> rd.plan])

\* The fields of the cursor that decide what it reads and delivers
Cursor(s) ==
    [h |-> s.h, offset |-> s.offset, carry |-> s.carry,
     headerSkipped |-> s.headerSkipped, bomStripped |-> s.bomStripped,
     out |-> s.out, consumed |-> s.consumed, delivered |-> s.delivered]

\* C25.  A call that finds the file replaced and reopens the path leaves the
\* cursor as a newly constructed cursor reading the new file would be: the
\* handle is on the new file, and offset, carry, the flags and the lines
\* returned are made of the new file's bytes alone.  When the reopen fails
\* the call returns nothing, and the call that opens the path later leaves a
\* cursor made of the new file in the same way.
C25_ReplacedDiscards ==
    [][Called =>
        /\ (hist'.ev.replaced \/ hist'.ev.opened) /\ tail'.h # INVALID_HANDLE_VALUE
             => /\ tail'.h = cur
                /\ \E oc \in {"noid", "ok"}, rd \in Reads :
                       Cursor(FreshCall(oc, rd)) = Cursor(tail' @@ hist')
        /\ hist'.ev.replaced => tail'.h # tail.h
        /\ tail'.h = INVALID_HANDLE_VALUE => hist'.out = <<>>]_vars

\* A replacement found while the old file's last byte, read into carry, was
\* not a line feed; the call returned a line of the new file
C25_Witness ==
    /\ hist.ev.replaced
    /\ made = 2 /\ cur = 2 /\ tail.h = 2
    /\ hist.ev.was > 0
    /\ Len(content[1]) >= hist.ev.was
    /\ content[1][hist.ev.was] # LF
    /\ hist.out # <<>>

\* The LF-terminated segments of bytes as they are in the file, the CR kept
RawSegments(bytes) ==
    LET ends == LFs(bytes)
        End(k) == CHOOSE i \in ends : Cardinality({j \in ends : j <= i}) = k
        Start(k) == IF k = 1 THEN 1 ELSE End(k - 1) + 1
    IN  [k \in 1..Cardinality(ends) |-> SubSeq(bytes, Start(k), End(k) - 1)]

\* The line the cursor extracts from a carry holding text and one LF
LineOf(text) ==
    ExtractLines([NewTail(FALSE) @@ NewHist EXCEPT !.carry = text \o <<LF>>]).out[1]

EndsCR(seg) == seg # <<>> /\ seg[Len(seg)] = CR

\* C26.  Every line returned is the segment of the file its LF ends (the
\* first one with or without the byte-order mark): without its last byte
\* when that byte is a CR, and whole otherwise, so that one CR is removed and
\* every other CR is kept.  The line of text CR LF is the line of text LF;
\* for a text that ends in a CR itself the latter is again a line ended by
\* CR LF, and loses that CR.  A CR left at the end of carry by one call and
\* followed by the LF in the next call is removed in the same way.
C26_CRLF ==
    /\ [](LET raw  == RawSegments(hist.consumed)
              got  == hist.delivered
              skip == Len(raw) - Len(got)
          IN  /\ skip \in {0, 1}
              /\ \A i \in 1..Len(got) :
                     LET seg  == raw[i + skip]
                         text == SubSeq(seg, 1, Len(seg) - 1)
                         Same(a, b) == IF i + skip = 1 THEN SameButBom(a, b)
                                       ELSE a = b
                     IN  /\ EndsCR(seg) =>
                             /\ Same(got[i], text)
                             /\ LineOf(seg) = text
                             /\ ~EndsCR(text) => LineOf(seg) = LineOf(text)
                             /\ EndsCR(text) => EndsCR(got[i])
                         /\ ~EndsCR(seg) =>
                             /\ Same(got[i], seg)
                             /\ LineOf(seg) = seg)
    /\ [][(/\ Called
           /\ EndsCR(tail.carry)
           /\ tail.skipHeader => tail.headerSkipped
           /\ tail'.offset > tail.offset
           /\ content[tail.h][tail.offset + 1] = LF)
          => /\ hist'.out # <<>>
             /\ hist'.out[1] = SubSeq(tail.carry, 1, Len(tail.carry) - 1)]_vars

\* A letter and a CR wait in carry, the LF is in the file, and the call that
\* reads it returns the letter alone
C26_Witness ==
    /\ tail.carry = <<97, CR>>
    /\ tail.h # INVALID_HANDLE_VALUE
    /\ Len(content[tail.h]) > tail.offset
    /\ content[tail.h][tail.offset + 1] = LF
    /\ \E io \in IOs : ReadAppendedLines(tail @@ hist, io).out = << <<97>> >>

\* A round of the loop whose ReadAppendedLines has every Win32 call succeed
OkRead ==
    /\ LoopStep
    /\ loop.pc = "read"
    /\ \E io \in IOs :
           AllOk(io) /\ tail' @@ hist' = ReadAppendedLines(tail @@ hist, io)

\* The handle is on the file the path names, and the bytes before offset are
\* the bytes the cursor has read since its last reset
InSync ==
    /\ cur # NoFile /\ tail.h = cur
    /\ tail.offset <= Len(content[cur])
    /\ hist.consumed = Passed

\* C27 as claimed: when the loop keeps making calls that succeed and the
\* producers have stopped, the handle is on the file the path names and the
\* lines returned since the last reset are that file's data lines
C27_Original ==
    []<><<OkRead>>_vars
    => <>[](cur # NoFile =>
               /\ tail.h = cur
               /\ hist.delivered = DataLines(content[cur], TRUE))

\* C27 as amended: when the loop keeps making calls that succeed and the
\* producers have stopped, the cursor comes to hold a handle whose file it
\* has read to the end, and stays so; if that handle is on the file the path
\* names and no truncation went unnoticed, the lines returned since the last
\* reset are the file's data lines, each once and in order.
C27_Liveness ==
    []<><<OkRead>>_vars
    => <>[](/\ AtEnd
            /\ tail.hasFileId => tail.h = cur
            /\ InSync => hist.delivered = DataLines(content[cur], TRUE))

\* The producers have replaced the file and written a header and a line to
\* the new one; the loop has followed and returned the line
C27_Witness ==
    /\ ops = MaxOps
    /\ cur = 2 /\ InSync /\ AtEnd
    /\ hist.delivered = DataLines(content[cur], TRUE)
    /\ hist.delivered # <<>>
    /\ loop.pc = "open" /\ loop.end = "done"

\* C28.  The cursor owns at most one read handle: the handles it has got for
\* reading and not closed are the one in _h, or none when _h is invalid;
\* when a call opens a handle no other read handle is open (a replaced
\* file's handle is closed first); no probe handle is left open by a call;
\* Close leaves no handle open, and a second Close changes nothing.
C28_HandleOwnership ==
    /\ hist.handles.read = (IF tail.h # INVALID_HANDLE_VALUE THEN 1 ELSE 0)
    /\ hist.handles.probe = 0
    /\ hist.ev.atOpen <= 1
    /\ hist.ev.opened => hist.ev.atOpen = 1
    /\ LET c == Close(tail @@ hist)
       IN  /\ c.h = INVALID_HANDLE_VALUE
           /\ c.handles = [read |-> 0, probe |-> 0]
           /\ Close(c) = c

\* A call found the file replaced, closed the old handle and opened the new
\* file: one read handle is open, the one in _h
C28_Witness ==
    /\ hist.ev.replaced /\ hist.ev.opened
    /\ hist.ev.was > 0
    /\ tail.h = cur /\ cur = 2
    /\ hist.handles = [read |-> 1, probe |-> 0]
    /\ hist.ev.atOpen = 1

\* C29.  What the cursor holds was read through the handle it has.  An open
\* that succeeds, whenever it is made and whatever offset and carry a closed
\* handle has left behind, starts at offset 0 with carry empty and the flags
\* clear; a call that ends with another handle than it began with has read
\* that handle's file from byte 0, and what it returns and keeps comes from
\* those bytes; a call that keeps its handle adds to the consumed bytes the
\* bytes of that handle's file after the old offset, or, after a truncation,
\* starts again with the bytes from byte 0.
C29_OneHandle ==
    /\ [](tail.h = INVALID_HANDLE_VALUE =>
             \A oc \in {"noid", "ok"} :
                 LET o == Open(tail @@ hist, oc)
                 IN  /\ o.h = cur
                     /\ o.offset = 0 /\ o.carry = <<>>
                     /\ ~o.bomStripped /\ ~o.headerSkipped
                     /\ o.consumed = <<>> /\ o.delivered = <<>>)
    /\ [][Called =>
            /\ (tail'.h # tail.h /\ tail'.h # INVALID_HANDLE_VALUE) =>
                   /\ hist'.ev.opened
                   /\ tail'.h = cur
                   /\ ReadFromStart'
            /\ (tail'.h = tail.h /\ tail.h # INVALID_HANDLE_VALUE) =>
                   /\ ~hist'.ev.opened
                   /\ ~hist'.ev.sizeFailed => tail'.offset <= Len(content[tail.h])
                   /\ IF hist'.ev.truncated
                      THEN hist'.consumed = SubSeq(content[tail.h], 1, tail'.offset)
                      ELSE /\ tail'.offset >= tail.offset
                           /\ hist'.consumed = hist.consumed \o
                                  (IF tail'.offset > tail.offset
                                   THEN SubSeq(content[tail.h], tail.offset + 1,
                                               tail'.offset)
                                   ELSE <<>>)
            /\ tail'.h = INVALID_HANDLE_VALUE => hist'.out = <<>>]_vars

\* The reopen after a replacement has failed: no handle, the old handle's
\* offset and carry still in the object, the new file written to; the open
\* that succeeds next clears them
C29_Witness ==
    /\ tail.h = INVALID_HANDLE_VALUE
    /\ hist.ev.replaced
    /\ tail.offset > 0 /\ tail.carry # <<>>
    /\ cur # NoFile /\ content[cur] # <<>>
    /\ Open(tail @@ hist, "ok").carry = <<>>

\* C30.  After every call carry holds no LF: it is the bytes of the file
\* after the last LF before offset (all of the bytes before offset when none
\* is an LF, with or without the byte-order mark), the beginning of the one
\* line that is not yet complete.
C30_Carry ==
    /\ [](/\ \A i \in 1..Len(tail.carry) : tail.carry[i] # LF
          /\ Len(tail.carry) <= tail.offset
          /\ (tail.h # INVALID_HANDLE_VALUE /\ tail.offset <= Len(content[tail.h])
                  /\ hist.consumed = Passed) =>
                 LET ends == LFs(Passed)
                     last == IF ends = {} THEN 0
                             ELSE CHOOSE i \in ends : \A j \in ends : j <= i
                     rest == SubSeq(content[tail.h], last + 1, tail.offset)
                 IN  IF last = 0 THEN SameButBom(tail.carry, rest)
                     ELSE tail.carry = rest)
    /\ [][Called => Find(tail'.carry, LF) = 0]_vars

\* A call has read the header, a line and the beginning of the next line in
\* chunks: it returned the line and kept the beginning in carry
C30_Witness ==
    /\ tail.skipHeader /\ tail.headerSkipped
    /\ hist.out # <<>>
    /\ tail.carry # <<>>
    /\ tail.offset = Len(content[tail.h])
    /\ tail.offset > kBuf
    /\ hist.ev.opened

\* The whole seconds in the milliseconds d, and the milliseconds left over
\* (long division of the two halves by 1000)
Seconds(d) ==
    LET rest == (d.hi % 1000) * Half + d.lo
    IN  [whole |-> (d.hi \div 1000) * Half + (rest \div 1000),
         left  |-> rest % 1000]

\* C31.  The sleep of a started loop is 0 ms when waitSeconds is 0, and
\* exactly waitSeconds * 1000 ms when waitSeconds is positive: the 32-bit
\* value is a whole number of seconds, and that number is waitSeconds.
C31_PollInterval ==
    \A m \in {"append", "new"} :
        started[m].on =>
            LET w == started[m].waitSeconds
                d == started[m].waitMs
            IN  /\ w = 0 => d = DWORD(0, 0)
                /\ w > 0 => Seconds(d) = [whole |-> w, left |-> 0]

\* The intervals up to 4294967 seconds are converted exactly
C31_UpTo49Days ==
    \A m \in {"append", "new"} :
        (started[m].on /\ started[m].waitSeconds \in 0..4294967) =>
            Seconds(started[m].waitMs) =
                [whole |-> started[m].waitSeconds, left |-> 0]

=============================================================================
